---------------------------- MODULE Spec2Model ----------------------------
(***************************************************************************)
(* Model of the shape catalog and of the verification-key pipeline of      *)
(* crates/prover/src/shapes.rs: ZKMProofShape::generate,                   *)
(* generate_maximal_shapes, dummy_vk_map, check_shapes and build_vk_map    *)
(* with their compiler workers, setup workers, channels and mutexes.       *)
(***************************************************************************)
EXTENDS Integers, Sequences, FiniteSets, TLC

(***************************************************************************)
(* Bounds of the model.                                                    *)
(***************************************************************************)
MaxTables == 2          \* table identifiers 1..MaxTables (in string order)
MaxCore == 2            \* core shapes a configuration yields at most
MaxAllowed == 1         \* allowed recursion shapes of a configuration at most
MaxBatch == 1           \* reduce_batch_size at most
MaxWorkers == 2         \* workers per stage at most
MaxCount == 70          \* largest catalog size the height formula is tried on

None == "None"

\* Option<Vec<usize>>: None, or Some of the HashSet the indices are collected into.
NoIndices == <<>>
SomeIndices(S) == <<S>>

(***************************************************************************)
(* Shapes.  An OrderedShape is its inner list of (table, log-height)       *)
(* entries; a core shape (Shape<K>) is a hash map, modelled as the set of  *)
(* its entries.                                                            *)
(***************************************************************************)
Range(s) == {s[i] : i \in DOMAIN s}

\* The log-height bound the maximal core shapes are asked for; every table
\* of the model has this log-height.
MaxLogShardSize == 21

\* Shape<K> values: a non-empty set of tables, each with its log-height.
CoreMaps ==
    UNION {[T -> {MaxLogShardSize}] : T \in (SUBSET (1..MaxTables)) \ {{}}}

\* The entries (table, log-height) of a map.
Entries(m) == {<<t, m[t]>> : t \in DOMAIN m}

\* Derived Ord of (String, usize).
LessEntry(a, b) == a[1] < b[1] \/ (a[1] = b[1] /\ a[2] < b[2])

\* OrderedShape built the canonical way: entries sorted by table identifier.
SortedEntries(m) ==
    CHOOSE s \in [1..Cardinality(DOMAIN m) -> Entries(m)] :
        /\ Range(s) = Entries(m)
        /\ \A i \in 1..(Len(s) - 1) : LessEntry(s[i], s[i + 1])

\* The orders in which a hash map may hand out its entries.
IterationOrders(m) ==
    {s \in [1..Cardinality(DOMAIN m) -> Entries(m)] : Range(s) = Entries(m)}

\* Derived Ord of Vec<(String, usize)>: lexicographic, a proper prefix is less.
RECURSIVE LessOrderedShape(_, _)
LessOrderedShape(s, t) ==
    IF t = <<>> THEN FALSE
    ELSE IF s = <<>> THEN TRUE
    ELSE IF s[1] = t[1] THEN LessOrderedShape(Tail(s), Tail(t))
    ELSE LessEntry(s[1], t[1])

\* Derived Ord of Vec<OrderedShape>.
RECURSIVE LessShapeList(_, _)
LessShapeList(s, t) ==
    IF t = <<>> THEN FALSE
    ELSE IF s = <<>> THEN TRUE
    ELSE IF s[1] = t[1] THEN LessShapeList(Tail(s), Tail(t))
    ELSE LessOrderedShape(s[1], t[1])

\* enum ZKMProofShape { Recursion, Compress, Deferred, Shrink }: a variant and
\* the list of the OrderedShapes it wraps (one for all but Compress).
Recursion(s) == [kind |-> "Recursion", shapes |-> <<s>>]
Compress(l) == [kind |-> "Compress", shapes |-> l]
Deferred(s) == [kind |-> "Deferred", shapes |-> <<s>>]
Shrink(s) == [kind |-> "Shrink", shapes |-> <<s>>]

VariantIndex(k) ==
    CASE k = "Recursion" -> 0 [] k = "Compress" -> 1 [] k = "Deferred" -> 2 [] k = "Shrink" -> 3

\* Derived Ord of ZKMProofShape: the variant first, then the payload.
LessProofShape(a, b) ==
    \/ VariantIndex(a.kind) < VariantIndex(b.kind)
    \/ a.kind = b.kind /\ LessShapeList(a.shapes, b.shapes)

\* collect::<BTreeSet<_>>() followed by into_iter(): the distinct elements in
\* ascending order (position p holds the element of rank p - 1).
BTreeSetSeq(S) ==
    [p \in 1..Cardinality(S) |->
        CHOOSE x \in S : Cardinality({y \in S : LessProofShape(y, x)}) = p - 1]

RECURSIVE Flatten(_)
Flatten(ss) == IF ss = <<>> THEN <<>> ELSE Head(ss) \o Flatten(Tail(ss))

Map1(f(_), s) == [i \in DOMAIN s |-> f(s[i])]

\* Sequences over S of length at most n.
SeqUpTo(S, n) == UNION {[1..k -> S] : k \in 0..n}

(***************************************************************************)
(* The shape configurations (external collaborators).                      *)
(*   core_shape_config      : the list of core shapes (hash maps);         *)
(*   recursion_shape_config : the list of allowed recursion shapes.        *)
(***************************************************************************)
\* The table that only precompile shapes have.
PrecompileTable == MaxTables

\* CoreShapeConfig::all_shapes: every core shape as a canonical OrderedShape.
core_all_shapes(core) == Map1(SortedEntries, core)

\* CoreShapeConfig::maximal_core_plus_precompile_shapes.
maximal_core_plus_precompile_shapes(core) == core

\* CoreShapeConfig::maximal_core_shapes: the shapes without precompile table.
maximal_core_shapes(core) ==
    SelectSeq(core, LAMBDA m : PrecompileTable \notin DOMAIN m)

\* RecursionShapeConfig::get_all_shape_combinations(batch_size): the
\* batch_size-fold cartesian product of the allowed shapes.
RECURSIVE get_all_shape_combinations(_, _)
get_all_shape_combinations(rec, batch_size) ==
    IF batch_size = 0 THEN << <<>> >>
    ELSE LET shorter == get_all_shape_combinations(rec, batch_size - 1)
         IN  Flatten([i \in DOMAIN shorter |->
                        [j \in DOMAIN rec |-> Append(shorter[i], rec[j])]])

(***************************************************************************)
(* ZKMProofShape::generate, generate_maximal_shapes, dummy_vk_map.         *)
(***************************************************************************)
\* Faulty variant of the shared part below: the range of batch sizes taken as
\* exclusive of reduce_batch_size.
RecursionLevelShapesExclusive(rec, reduce_batch_size) ==
    Flatten([batch_size \in 1..(reduce_batch_size - 1) |->
                Map1(Compress, get_all_shape_combinations(rec, batch_size))])
    \o Map1(LAMBDA x : Deferred(x[Len(x)]), get_all_shape_combinations(rec, 1))
    \o Map1(LAMBDA x : Shrink(x[Len(x)]), get_all_shape_combinations(rec, 1))

\* Faulty variant: the Shrink shapes are left out.
RecursionLevelShapesNoShrink(rec, reduce_batch_size) ==
    Flatten([batch_size \in 1..reduce_batch_size |->
                Map1(Compress, get_all_shape_combinations(rec, batch_size))])
    \o Map1(LAMBDA x : Deferred(x[Len(x)]), get_all_shape_combinations(rec, 1))

\* The part both generators share: Compress for every batch size, then
\* Deferred and Shrink from the 1-way combinations (x.pop().unwrap()).
RecursionLevelShapes(rec, reduce_batch_size) ==
    Flatten([batch_size \in 1..reduce_batch_size |->
                Map1(Compress, get_all_shape_combinations(rec, batch_size))])
    \o Map1(LAMBDA x : Deferred(x[Len(x)]), get_all_shape_combinations(rec, 1))
    \o Map1(LAMBDA x : Shrink(x[Len(x)]), get_all_shape_combinations(rec, 1))

generate(core, rec, reduce_batch_size) ==
    Map1(Recursion, core_all_shapes(core)) \o RecursionLevelShapes(rec, reduce_batch_size)

\* The core shapes generate_maximal_shapes iterates over.
core_shape_iter(core, no_precompiles) ==
    IF no_precompiles THEN maximal_core_shapes(core)
    ELSE maximal_core_plus_precompile_shapes(core)

\* The iteration orders the hash maps of the core shapes may take: one order
\* per core shape.
CoreIterationOrders(core, no_precompiles) ==
    LET it == core_shape_iter(core, no_precompiles)
    IN  {o \in [DOMAIN it -> UNION {IterationOrders(it[i]) : i \in DOMAIN it}] :
            \A i \in DOMAIN it : o[i] \in IterationOrders(it[i])}

\* generate_maximal_shapes, order[i] being the order in which core shape i
\* hands out its entries: they are collected into inner as they come.
generate_maximal_shapes(core, rec, reduce_batch_size, no_precompiles, order) ==
    [i \in DOMAIN core_shape_iter(core, no_precompiles) |-> Recursion(order[i])]
    \o RecursionLevelShapes(rec, reduce_batch_size)

\* The order of the field KoalaBear, 2^31 - 2^24 + 1.
KoalaBearP == 127 * 2^24 + 1

\* Faulty variant: two neighbouring indices share a digest.
DummyDigestOfPair(i) == (i \div 2) % KoalaBearP

\* [KoalaBear::from_canonical_usize(i); DIGEST_SIZE]: all elements equal, so
\* the digest is modelled by its repeated element.
DummyDigest(i) == i % KoalaBearP

\* dummy_vk_map: the keys of the map, one per enumerated shape (0-based i).
dummy_vk_map(core, rec, reduce_batch_size) ==
    LET g == generate(core, rec, reduce_batch_size)
    IN  [d \in {DummyDigest(p - 1) : p \in DOMAIN g} |->
            CHOOSE i \in 0..(Len(g) - 1) :
                /\ DummyDigest(i) = d
                /\ \A j \in (i + 1)..(Len(g) - 1) : DummyDigest(j) # d]

\* count.next_power_of_two() (usize): the smallest power of two >= count.
RECURSIVE NextPowerOfTwoFrom(_, _)
NextPowerOfTwoFrom(p, count) ==
    IF p >= count THEN p ELSE NextPowerOfTwoFrom(2 * p, count)

\* Faulty variant: the smallest power of two greater than count.
next_power_of_two_strict(count) == NextPowerOfTwoFrom(1, count + 1)

next_power_of_two(count) == NextPowerOfTwoFrom(1, count)

\* x.ilog2(): floor of the base-2 logarithm, x > 0.
RECURSIVE ilog2(_)
ilog2(x) == IF x <= 1 THEN 0 ELSE 1 + ilog2(x \div 2)

\* Faulty variant: the logarithm rounded down.
MerkleHeightFloor(count) == ilog2(count)

\* The Merkle tree height of check_shapes and build_vk_map.
MerkleHeight(count) == ilog2(next_power_of_two(count))

\* Faulty variant: the height is taken from the shapes inside the variant.
from_proof_shape_own_height(shape, h) ==
    [kind |-> shape.kind,
     shapes |-> shape.shapes,
     merkle_tree_height |-> IF shape.kind = "Recursion" THEN None
                            ELSE MerkleHeight(Len(shape.shapes))]

\* ZKMCompressProgramShape::from_proof_shape: the variant and the wrapped
\* shapes are kept, every variant but Recursion gets the Merkle tree height.
from_proof_shape(shape, h) ==
    [kind |-> shape.kind,
     shapes |-> shape.shapes,
     merkle_tree_height |-> IF shape.kind = "Recursion" THEN None ELSE h]

\* The ZKMProofShape a program shape was made from.
ProofShapeOf(program_shape) ==
    [kind |-> program_shape.kind, shapes |-> program_shape.shapes]

(***************************************************************************)
(* State.                                                                  *)
(***************************************************************************)
VARIABLES
    args,                   \* the arguments of the call (fn: the function called)
    core_shape_config,      \* prover.core_shape_config
    recursion_shape_config, \* prover.compress_shape_config
    oracle,                 \* what the collaborators do: the shapes whose
                            \* compilation panics, the shapes whose setup
                            \* panics, the digest of every shape's key
    main_pc,                \* where the calling thread is
    all_shapes,             \* the sorted catalog (all_shapes, all_maximal_shapes)
    height,                 \* the Merkle tree height
    sent,                   \* how many shapes of subset_shapes have been sent
    shape_q,                \* the shape channel (sync_channel)
    program_q,              \* the program channel (sync_channel)
    vk_q,                   \* the vk channel
    panic_q,                \* the panic channel
    shape_rx,               \* Mutex of shape_rx: its holder and poison flag
    program_rx,             \* Mutex of program_rx
    compiler,               \* compiler workers: pc and the item in hand
    setup,                  \* setup workers: pc and the item in hand
    compiled,               \* indices program_from_shape was called for, in call order
    set_up,                 \* indices setup was called for, in call order
    vk_set,                 \* the collected digests
    panic_indices,          \* the collected failure indices
    compress_ok,            \* check_shapes: no panic was reported
    result                  \* what the call returned

vars ==
    <<args, core_shape_config, recursion_shape_config, oracle, main_pc, all_shapes,
      height, sent, shape_q, program_q, vk_q, panic_q, shape_rx, program_rx,
      compiler, setup, compiled, set_up, vk_set, panic_indices, compress_ok, result>>

CompilerWorkers == 1..args.num_compiler_workers
SetupWorkers == 1..args.num_setup_workers

\* num_shapes = all_shapes.len()
num_shapes == Len(all_shapes)

\* Faulty variant: the shapes are numbered after the filter.
subset_shapes_renumbered(shapes, indices) ==
    LET keep == {i \in 0..(Len(shapes) - 1) : indices = NoIndices \/ i \in indices[1]}
    IN  [p \in 1..Cardinality(keep) |->
            LET i == CHOOSE i \in keep : Cardinality({j \in keep : j < i}) = p - 1
            IN  [i |-> p - 1, shape |-> shapes[i + 1]]]

\* subset_shapes: the (index, shape) pairs of all_shapes whose index the
\* indices set contains (all of them without indices), in ascending order.
subset_shapes(shapes, indices) ==
    LET keep == {i \in 0..(Len(shapes) - 1) : indices = NoIndices \/ i \in indices[1]}
    IN  [p \in 1..Cardinality(keep) |->
            LET i == CHOOSE i \in keep : Cardinality({j \in keep : j < i}) = p - 1
            IN  [i |-> i, shape |-> shapes[i + 1]]]

\* What check_shapes dispatches: every maximal shape, without index.
maximal_dispatch(shapes) == [p \in DOMAIN shapes |-> [i |-> p - 1, shape |-> shapes[p]]]

\* The shapes the producer sends, in sending order.
Dispatch ==
    IF args.fn = "check_shapes" THEN maximal_dispatch(all_shapes)
    ELSE subset_shapes(all_shapes, args.indices)

\* Faulty variant: the program also depends on what was compiled before.
program_from_shape_stateful(program_shape) ==
    IF ProofShapeOf(program_shape) \in oracle.compile_faults THEN [ok |-> FALSE]
    ELSE [ok |-> TRUE, program_of |-> program_shape, compiled_before |-> Len(compiled)]

\* catch_unwind(program_from_shape(shape)): Err exactly for the shapes the
\* circuit builder faults on; the program is a function of the shape alone.
program_from_shape(program_shape) ==
    IF ProofShapeOf(program_shape) \in oracle.compile_faults THEN [ok |-> FALSE]
    ELSE [ok |-> TRUE, program_of |-> program_shape]

\* setup(program).1.hash_koalabear(): the digest of the program's key, or a
\* panic of the setup collaborator.
SetupPanics(program) == ProofShapeOf(program.program_of) \in oracle.setup_faults
vk_digest(program) == oracle.digest[ProofShapeOf(program.program_of)]

\* The sending handles of the calling thread are alive until it drops them.
\* (main_pc names the statement the calling thread executes next.)
ShapeTxAlive == main_pc \in {"start", "spawn", "send"}
ProgramTxAlive == ShapeTxAlive \/ main_pc = "drop_program_tx"
VkTxAlive == ProgramTxAlive \/ main_pc = "drop_vk_tx"
PanicTxAlive == VkTxAlive \/ main_pc = "drop_panic_tx"

\* A worker thread has ended (its closure returned or unwound).
Ended(w) == w.pc \in {"done", "panicked"}

\* A channel is disconnected once every sender is dropped: the handle of the
\* calling thread and the clone each worker of the sending stage owns.
ShapeDisconnected == ~ShapeTxAlive
\* Faulty variants: the clones owned by the compiler workers are not counted.
ProgramDisconnectedMain == ~ProgramTxAlive
PanicDisconnectedMain == ~PanicTxAlive

ProgramDisconnected == ~ProgramTxAlive /\ \A w \in CompilerWorkers : Ended(compiler[w])
VkDisconnected == ~VkTxAlive /\ \A w \in SetupWorkers : Ended(setup[w])
PanicDisconnected == ~PanicTxAlive /\ \A w \in CompilerWorkers : Ended(compiler[w])

\* Faulty variant: a channel without a bound.
CanSendUnbounded(q, bound) == TRUE

\* A send on sync_channel(bound) goes through while fewer than bound items
\* are buffered.  (With bound 0 it needs a receiver in recv; the bound is the
\* number of workers of the receiving stage, so with bound 0 there is none.)
CanSend(q, bound) == Len(q) < bound

\* A Mutex: the set of the workers holding it (none or one) and the poison flag.
Free == [locked_by |-> {}, poisoned |-> FALSE]

(***************************************************************************)
(* The calling thread.                                                     *)
(***************************************************************************)
\* let height = num_shapes.next_power_of_two().ilog2() (lines 87, 176): the
\* height of a run over the catalog shapes, whatever the indices are.
\* Faulty variant: the height of the shapes the indices select (chunk_size).
run_height_of_subset(shapes, indices) == MerkleHeight(Len(subset_shapes(shapes, indices)))

run_height(shapes, indices) == MerkleHeight(Len(shapes))

\* build_vk_map, real run: all_shapes, num_shapes, height (lines 169-177).
Enumerate ==
    /\ main_pc = "start"
    /\ args.fn = "build_vk_map"
    /\ ~args.dummy
    /\ all_shapes' = BTreeSetSeq(Range(generate(core_shape_config, recursion_shape_config,
                                                args.reduce_batch_size)))
    /\ height' = run_height(all_shapes', args.indices)
    /\ main_pc' = "spawn"
    /\ UNCHANGED <<args, core_shape_config, recursion_shape_config, oracle, sent, shape_q,
                   program_q, vk_q, panic_q, shape_rx, program_rx, compiler, setup,
                   compiled, set_up, vk_set, panic_indices, compress_ok, result>>

\* Faulty variant: the dummy run keeps only the digests of the indices asked.
DummyVkMapOfIndices ==
    /\ main_pc = "start"
    /\ args.fn = "build_vk_map"
    /\ args.dummy
    /\ LET all == DOMAIN dummy_vk_map(core_shape_config, recursion_shape_config,
                                      args.reduce_batch_size)
           dummy_set == IF args.indices = NoIndices THEN all ELSE all \cap args.indices[1]
       IN  /\ vk_set' = dummy_set
           /\ height' = MerkleHeight(Cardinality(dummy_set))
           /\ result' = [vk_set |-> dummy_set, panic_indices |-> <<>>,
                         height |-> MerkleHeight(Cardinality(dummy_set))]
    /\ main_pc' = "returned"
    /\ UNCHANGED <<args, core_shape_config, recursion_shape_config, oracle, all_shapes, sent,
                   shape_q, program_q, vk_q, panic_q, shape_rx, program_rx, compiler, setup,
                   compiled, set_up, panic_indices, compress_ok>>

\* build_vk_map, dummy run (lines 148-158): the whole call.
DummyVkMap ==
    /\ main_pc = "start"
    /\ args.fn = "build_vk_map"
    /\ args.dummy
    /\ LET dummy_set == DOMAIN dummy_vk_map(core_shape_config, recursion_shape_config,
                                            args.reduce_batch_size)
       IN  /\ vk_set' = dummy_set
           /\ height' = MerkleHeight(Cardinality(dummy_set))
           /\ result' = [vk_set |-> dummy_set, panic_indices |-> <<>>,
                         height |-> MerkleHeight(Cardinality(dummy_set))]
    /\ main_pc' = "returned"
    /\ UNCHANGED <<args, core_shape_config, recursion_shape_config, oracle, all_shapes, sent,
                   shape_q, program_q, vk_q, panic_q, shape_rx, program_rx, compiler, setup,
                   compiled, set_up, panic_indices, compress_ok>>

\* check_shapes: all_maximal_shapes, num_shapes, height (lines 76-87).
EnumerateMaximal ==
    /\ main_pc = "start"
    /\ args.fn = "check_shapes"
    /\ \E order \in CoreIterationOrders(core_shape_config, args.no_precompiles) :
          all_shapes' = BTreeSetSeq(Range(generate_maximal_shapes(
                            core_shape_config, recursion_shape_config,
                            args.reduce_batch_size, args.no_precompiles, order)))
    /\ height' = run_height(all_shapes', NoIndices)
    /\ main_pc' = "spawn"
    /\ UNCHANGED <<args, core_shape_config, recursion_shape_config, oracle, sent, shape_q,
                   program_q, vk_q, panic_q, shape_rx, program_rx, compiler, setup,
                   compiled, set_up, vk_set, panic_indices, compress_ok, result>>

\* Faulty variant: the workers are spawned before the shapes are enumerated.
SpawnBeforeEnumeration ==
    /\ main_pc = "start"
    /\ \A w \in CompilerWorkers : compiler[w].pc = "unspawned"
    /\ \A w \in SetupWorkers : setup[w].pc = "unspawned"
    /\ CompilerWorkers \cup SetupWorkers # {}
    /\ compiler' = [w \in CompilerWorkers |-> [pc |-> "lock", item |-> None]]
    /\ setup' = [w \in SetupWorkers |-> [pc |-> "lock", item |-> None]]
    /\ UNCHANGED <<args, core_shape_config, recursion_shape_config, oracle, main_pc,
                   all_shapes, height, sent, shape_q, program_q, vk_q, panic_q, shape_rx,
                   program_rx, compiled, set_up, vk_set, panic_indices, compress_ok, result>>

\* The two spawn loops of the thread scope (lines 91-115, 181-236).
Spawn ==
    /\ main_pc = "spawn"
    /\ compiler' = [w \in CompilerWorkers |-> [pc |-> "lock", item |-> None]]
    /\ setup' = [w \in SetupWorkers |-> [pc |-> "lock", item |-> None]]
    /\ main_pc' = "send"
    /\ UNCHANGED <<args, core_shape_config, recursion_shape_config, oracle, all_shapes,
                   height, sent, shape_q, program_q, vk_q, panic_q, shape_rx, program_rx,
                   compiled, set_up, vk_set, panic_indices, compress_ok, result>>

\* shape_tx.send((i, from_proof_shape(shape, height))) (lines 118-122, 245-251).
SendShape ==
    /\ main_pc = "send"
    /\ sent < Len(Dispatch)
    /\ CanSend(shape_q, args.num_compiler_workers)
    /\ shape_q' = Append(shape_q, [i |-> Dispatch[sent + 1].i,
                                   shape |-> from_proof_shape(Dispatch[sent + 1].shape, height)])
    /\ sent' = sent + 1
    /\ UNCHANGED <<args, core_shape_config, recursion_shape_config, oracle, main_pc,
                   all_shapes, height, program_q, vk_q, panic_q, shape_rx, program_rx,
                   compiler, setup, compiled, set_up, vk_set, panic_indices, compress_ok,
                   result>>

\* drop(shape_tx) once every shape is sent (lines 124, 253).
DropShapeTx ==
    /\ main_pc = "send"
    /\ sent = Len(Dispatch)
    /\ main_pc' = IF args.fn = "check_shapes" THEN "drop_panic_tx" ELSE "drop_program_tx"
    /\ UNCHANGED <<args, core_shape_config, recursion_shape_config, oracle, all_shapes,
                   height, sent, shape_q, program_q, vk_q, panic_q, shape_rx, program_rx,
                   compiler, setup, compiled, set_up, vk_set, panic_indices, compress_ok,
                   result>>

\* drop(program_tx) (line 254).
DropProgramTx ==
    /\ main_pc = "drop_program_tx"
    /\ main_pc' = "drop_vk_tx"
    /\ UNCHANGED <<args, core_shape_config, recursion_shape_config, oracle, all_shapes,
                   height, sent, shape_q, program_q, vk_q, panic_q, shape_rx, program_rx,
                   compiler, setup, compiled, set_up, vk_set, panic_indices, compress_ok,
                   result>>

\* drop(vk_tx) (line 255).
DropVkTx ==
    /\ main_pc = "drop_vk_tx"
    /\ main_pc' = "drop_panic_tx"
    /\ UNCHANGED <<args, core_shape_config, recursion_shape_config, oracle, all_shapes,
                   height, sent, shape_q, program_q, vk_q, panic_q, shape_rx, program_rx,
                   compiler, setup, compiled, set_up, vk_set, panic_indices, compress_ok,
                   result>>

\* drop(panic_tx) (lines 125, 256).
DropPanicTx ==
    /\ main_pc = "drop_panic_tx"
    /\ main_pc' = IF args.fn = "check_shapes" THEN "wait_panic" ELSE "collect_vk"
    /\ UNCHANGED <<args, core_shape_config, recursion_shape_config, oracle, all_shapes,
                   height, sent, shape_q, program_q, vk_q, panic_q, shape_rx, program_rx,
                   compiler, setup, compiled, set_up, vk_set, panic_indices, compress_ok,
                   result>>

\* vk_rx.iter().collect::<BTreeSet<_>>() (line 258): ends when the channel
\* is disconnected, with every digest that was sent.
CollectVk ==
    /\ main_pc = "collect_vk"
    /\ VkDisconnected
    /\ vk_set' = Range(vk_q)
    /\ vk_q' = <<>>
    /\ main_pc' = "collect_panic"
    /\ UNCHANGED <<args, core_shape_config, recursion_shape_config, oracle, all_shapes,
                   height, sent, shape_q, program_q, panic_q, shape_rx, program_rx,
                   compiler, setup, compiled, set_up, panic_indices, compress_ok, result>>

\* panic_rx.iter().collect::<Vec<_>>() (line 260).
CollectPanic ==
    /\ main_pc = "collect_panic"
    /\ PanicDisconnected
    /\ panic_indices' = panic_q
    /\ panic_q' = <<>>
    /\ main_pc' = "join"
    /\ UNCHANGED <<args, core_shape_config, recursion_shape_config, oracle, all_shapes,
                   height, sent, shape_q, program_q, vk_q, shape_rx, program_rx,
                   compiler, setup, compiled, set_up, vk_set, compress_ok, result>>

\* panic_rx.iter().next().is_none() (line 128): the first message, or the
\* disconnection of the channel.
WaitPanic ==
    /\ main_pc = "wait_panic"
    /\ panic_q # <<>> \/ PanicDisconnected
    /\ compress_ok' = (panic_q = <<>>)
    /\ panic_q' = IF panic_q = <<>> THEN <<>> ELSE Tail(panic_q)
    /\ main_pc' = "join"
    /\ UNCHANGED <<args, core_shape_config, recursion_shape_config, oracle, all_shapes,
                   height, sent, shape_q, program_q, vk_q, shape_rx, program_rx,
                   compiler, setup, compiled, set_up, vk_set, panic_indices, result>>

\* The end of std::thread::scope: every spawned thread is joined, and the
\* scope panics if one of them panicked; else the function returns.
ScopeExit ==
    /\ main_pc = "join"
    /\ \A w \in CompilerWorkers : Ended(compiler[w])
    /\ \A w \in SetupWorkers : Ended(setup[w])
    /\ IF \E w \in SetupWorkers : setup[w].pc = "panicked"
       THEN main_pc' = "panicked" /\ UNCHANGED result
       ELSE /\ main_pc' = "returned"
            /\ result' = IF args.fn = "check_shapes" THEN compress_ok
                         ELSE [vk_set |-> vk_set, panic_indices |-> panic_indices,
                               height |-> height]
    /\ UNCHANGED <<args, core_shape_config, recursion_shape_config, oracle, all_shapes,
                   height, sent, shape_q, program_q, vk_q, panic_q, shape_rx, program_rx,
                   compiler, setup, compiled, set_up, vk_set, panic_indices, compress_ok>>

(***************************************************************************)
(* Compiler workers (lines 95-114, 186-206).  The MutexGuard made by        *)
(* shape_rx.lock().unwrap() is a temporary of the scrutinee of the          *)
(* `while let`: it is dropped at the end of the loop body, or when the      *)
(* loop ends.  Nothing panics while it is held (program_from_shape runs     *)
(* under catch_unwind, both receivers outlive the scope), so this mutex     *)
(* is never poisoned.                                                       *)
(***************************************************************************)
\* The guard of a worker's loop iteration is dropped.
Unlock(mutex) == [mutex EXCEPT !.locked_by = {}]

\* Faulty variant: the receiver is taken without waiting for the lock.
CompilerLockUnguarded(w) ==
    /\ compiler[w].pc = "lock"
    /\ shape_rx' = [shape_rx EXCEPT !.locked_by = shape_rx.locked_by \cup {w}]
    /\ compiler' = [compiler EXCEPT ![w].pc = "recv"]
    /\ UNCHANGED <<args, core_shape_config, recursion_shape_config, oracle, main_pc,
                   all_shapes, height, sent, shape_q, program_q, vk_q, panic_q, program_rx,
                   setup, compiled, set_up, vk_set, panic_indices, compress_ok, result>>

\* shape_rx.lock().unwrap()
CompilerLock(w) ==
    /\ compiler[w].pc = "lock"
    /\ shape_rx.locked_by = {}
    /\ shape_rx' = [shape_rx EXCEPT !.locked_by = {w}]
    /\ compiler' = [compiler EXCEPT ![w].pc = "recv"]
    /\ UNCHANGED <<args, core_shape_config, recursion_shape_config, oracle, main_pc,
                   all_shapes, height, sent, shape_q, program_q, vk_q, panic_q, program_rx,
                   setup, compiled, set_up, vk_set, panic_indices, compress_ok, result>>

\* recv() returns Ok((i, shape)).
CompilerRecv(w) ==
    /\ compiler[w].pc = "recv"
    /\ shape_q # <<>>
    /\ compiler' = [compiler EXCEPT ![w] = [pc |-> "compile", item |-> Head(shape_q)]]
    /\ shape_q' = Tail(shape_q)
    /\ UNCHANGED <<args, core_shape_config, recursion_shape_config, oracle, main_pc,
                   all_shapes, height, sent, program_q, vk_q, panic_q, shape_rx, program_rx,
                   setup, compiled, set_up, vk_set, panic_indices, compress_ok, result>>

\* recv() returns Err: the channel is empty and disconnected; the loop and
\* the thread end, its sender clones are dropped.
CompilerExit(w) ==
    /\ compiler[w].pc = "recv"
    /\ shape_q = <<>>
    /\ ShapeDisconnected
    /\ compiler' = [compiler EXCEPT ![w].pc = "done"]
    /\ shape_rx' = Unlock(shape_rx)
    /\ UNCHANGED <<args, core_shape_config, recursion_shape_config, oracle, main_pc,
                   all_shapes, height, sent, shape_q, program_q, vk_q, panic_q, program_rx,
                   setup, compiled, set_up, vk_set, panic_indices, compress_ok, result>>

\* panic_tx.send(true) of check_shapes, panic_tx.send(i) of build_vk_map.
panic_message(fn, i) == IF fn = "check_shapes" THEN TRUE ELSE i

\* Faulty variant: no catch_unwind, the fault unwinds the worker thread.
OnCompileFaultUncaught(w, item) ==
    /\ panic_q' = panic_q
    /\ compiler' = [compiler EXCEPT ![w] = [pc |-> "panicked", item |-> None]]
    /\ shape_rx' = [locked_by |-> {}, poisoned |-> TRUE]

\* The Err arm of the match on the caught result (lines 104-111, 195-203):
\* the fault is reported and the loop body ends.
OnCompileFault(w, item) ==
    /\ panic_q' = Append(panic_q, panic_message(args.fn, item.i))
    /\ compiler' = [compiler EXCEPT ![w] = [pc |-> "lock", item |-> None]]
    /\ shape_rx' = Unlock(shape_rx)

\* Faulty variant: every single-shape program counts as a shrink program.
is_shrink_of_single(program_shape) == program_shape.kind \in {"Deferred", "Shrink"}

\* matches!(shape, ZKMCompressProgramShape::Shrink(_)) (line 192).
is_shrink_of(program_shape) == program_shape.kind = "Shrink"

\* catch_unwind(program_from_shape(shape.clone(), None)) and the match on
\* its result, up to the send of the program.
CompilerCompile(w) ==
    /\ compiler[w].pc = "compile"
    /\ compiled' = Append(compiled, compiler[w].item.i)
    /\ LET item == compiler[w].item
           program == program_from_shape(item.shape)
           is_shrink == is_shrink_of(item.shape)
       IN  IF ~program.ok
           THEN OnCompileFault(w, item)
           ELSE IF args.fn = "check_shapes"
           THEN /\ compiler' = [compiler EXCEPT ![w] = [pc |-> "lock", item |-> None]]
                /\ shape_rx' = Unlock(shape_rx)
                /\ UNCHANGED panic_q
           ELSE /\ compiler' = [compiler EXCEPT ![w] =
                       [pc |-> "send",
                        item |-> [i |-> item.i, program |-> program, is_shrink |-> is_shrink]]]
                /\ UNCHANGED <<panic_q, shape_rx>>
    /\ UNCHANGED <<args, core_shape_config, recursion_shape_config, oracle, main_pc,
                   all_shapes, height, sent, shape_q, program_q, vk_q, program_rx,
                   setup, set_up, vk_set, panic_indices, compress_ok, result>>

\* program_tx.send((i, program, is_shrink)).unwrap(), the end of the body.
CompilerSend(w) ==
    /\ compiler[w].pc = "send"
    /\ CanSend(program_q, args.num_setup_workers)
    /\ program_q' = Append(program_q, compiler[w].item)
    /\ compiler' = [compiler EXCEPT ![w] = [pc |-> "lock", item |-> None]]
    /\ shape_rx' = Unlock(shape_rx)
    /\ UNCHANGED <<args, core_shape_config, recursion_shape_config, oracle, main_pc,
                   all_shapes, height, sent, shape_q, vk_q, panic_q, program_rx,
                   setup, compiled, set_up, vk_set, panic_indices, compress_ok, result>>

(***************************************************************************)
(* Setup workers (lines 214-235).  setup runs outside catch_unwind with    *)
(* the guard of program_rx alive: a panic of setup unwinds the thread and  *)
(* poisons the mutex, and lock().unwrap() panics on a poisoned mutex.      *)
(***************************************************************************)
\* program_rx.lock().unwrap()
SetupLock(w) ==
    /\ setup[w].pc = "lock"
    /\ program_rx.locked_by = {}
    /\ IF program_rx.poisoned
       THEN setup' = [setup EXCEPT ![w].pc = "panicked"] /\ UNCHANGED program_rx
       ELSE /\ setup' = [setup EXCEPT ![w].pc = "recv"]
            /\ program_rx' = [program_rx EXCEPT !.locked_by = {w}]
    /\ UNCHANGED <<args, core_shape_config, recursion_shape_config, oracle, main_pc,
                   all_shapes, height, sent, shape_q, program_q, vk_q, panic_q, shape_rx,
                   compiler, compiled, set_up, vk_set, panic_indices, compress_ok, result>>

\* recv() returns Ok((i, program, is_shrink)).
SetupRecv(w) ==
    /\ setup[w].pc = "recv"
    /\ program_q # <<>>
    /\ setup' = [setup EXCEPT ![w] = [pc |-> "setup", item |-> Head(program_q)]]
    /\ program_q' = Tail(program_q)
    /\ UNCHANGED <<args, core_shape_config, recursion_shape_config, oracle, main_pc,
                   all_shapes, height, sent, shape_q, vk_q, panic_q, shape_rx, program_rx,
                   compiler, compiled, set_up, vk_set, panic_indices, compress_ok, result>>

\* recv() returns Err: the loop and the thread end.
SetupExit(w) ==
    /\ setup[w].pc = "recv"
    /\ program_q = <<>>
    /\ ProgramDisconnected
    /\ setup' = [setup EXCEPT ![w].pc = "done"]
    /\ program_rx' = Unlock(program_rx)
    /\ UNCHANGED <<args, core_shape_config, recursion_shape_config, oracle, main_pc,
                   all_shapes, height, sent, shape_q, program_q, vk_q, panic_q, shape_rx,
                   compiler, compiled, set_up, vk_set, panic_indices, compress_ok, result>>

\* The prover whose setup makes the key (lines 218-222).
setup_prover(is_shrink) == IF is_shrink THEN "shrink_prover" ELSE "compress_prover"

\* setup(&program).1, hash_koalabear, vk_tx.send(vk_digest).unwrap(), the
\* end of the body.
SetupRun(w) ==
    /\ setup[w].pc = "setup"
    /\ set_up' = Append(set_up, setup[w].item.i)
    /\ IF SetupPanics(setup[w].item.program)
       THEN /\ setup' = [setup EXCEPT ![w] = [pc |-> "panicked", item |-> None]]
            /\ program_rx' = [locked_by |-> {}, poisoned |-> TRUE]
            /\ UNCHANGED vk_q
       ELSE /\ vk_q' = Append(vk_q, vk_digest(setup[w].item.program))
            /\ setup' = [setup EXCEPT ![w] = [pc |-> "lock", item |-> None]]
            /\ program_rx' = Unlock(program_rx)
    /\ UNCHANGED <<args, core_shape_config, recursion_shape_config, oracle, main_pc,
                   all_shapes, height, sent, shape_q, program_q, panic_q, shape_rx,
                   compiler, compiled, vk_set, panic_indices, compress_ok, result>>

(***************************************************************************)
(* Initial states: the configuration, the arguments, the collaborators.    *)
(***************************************************************************)
\* The core shapes in the order of their canonical OrderedShapes.
SortedCoreMaps ==
    [p \in 1..Cardinality(CoreMaps) |->
        CHOOSE m \in CoreMaps :
            Cardinality({k \in CoreMaps :
                LessOrderedShape(SortedEntries(k), SortedEntries(m))}) = p - 1]

Min(a, b) == IF a < b THEN a ELSE b

Prefixes(s, n) == {SubSeq(s, 1, k) : k \in 0..Min(n, Len(s))}

\* Every shape a run over the configuration can meet.
ShapeUniverse(fn, core, rec, reduce_batch_size, no_precompiles) ==
    IF fn = "check_shapes"
    THEN UNION {Range(generate_maximal_shapes(core, rec, reduce_batch_size,
                                              no_precompiles, order)) :
                   order \in CoreIterationOrders(core, no_precompiles)}
    ELSE Range(generate(core, rec, reduce_batch_size))

\* The shapes whose compilation or setup may fault in a run: the least shape
\* of every variant (the first, some middle and the last shapes dispatched).
FaultCandidates(U) ==
    {s \in U : \A t \in U : t.kind = s.kind => ~LessProofShape(t, s)}

\* hash_koalabear of the key of each shape's program: all different, or
\* (colliding) the two least shapes of the universe sharing one digest.
DigestOracle(U, colliding) ==
    LET rank(s) == Cardinality({t \in U : LessProofShape(t, s)})
    IN  [s \in U |-> IF colliding /\ rank(s) = 0 THEN 2 ELSE rank(s) + 1]

\* The index arguments tried: none, or a set of the first index, the last
\* index and the index after the last.
IndexChoices(n) ==
    {NoIndices} \cup {SomeIndices(S) : S \in SUBSET ({0, n - 1, n} \cap 0..n)}

\* What the collaborators do and the index argument, for the universe U of
\* a real run: compilation faults alone; a setup fault; a digest collision;
\* an index set, with or without a compilation fault.
Scenarios(U) ==
    LET K == FaultCandidates(U)
        none == {}
    IN  {[compile_faults |-> F, setup_faults |-> none, digest |-> DigestOracle(U, FALSE),
          indices |-> NoIndices] : F \in SUBSET K}
        \cup
        UNION {{[compile_faults |-> F, setup_faults |-> {s},
                 digest |-> DigestOracle(U, FALSE), indices |-> NoIndices] :
                    F \in {none} \cup {{t} : t \in K \ {s}}} : s \in K}
        \cup
        {[compile_faults |-> none, setup_faults |-> none, digest |-> DigestOracle(U, TRUE),
          indices |-> NoIndices]}
        \cup
        {[compile_faults |-> F, setup_faults |-> none, digest |-> DigestOracle(U, FALSE),
          indices |-> ix] : ix \in IndexChoices(Cardinality(U)),
                            F \in {none} \cup {{t} : t \in K}}

\* The worker counts tried: the same count for both stages below the most,
\* or the most in one stage and one or two workers in the other.
WorkerCounts ==
    {<<n, n>> : n \in 0..(MaxWorkers - 1)}
    \cup {<<1, MaxWorkers>>, <<MaxWorkers, 1>>, <<2, MaxWorkers>>}

\* The configurations of the pipeline runs: no shape at all, or MaxCore
\* core shapes and one allowed recursion shape.
PipelineConfigs ==
    {[core |-> <<>>, rec |-> <<>>],
     [core |-> SubSeq(SortedCoreMaps, 1, MaxCore),
      rec |-> SubSeq(Map1(SortedEntries, SortedCoreMaps), 1, 1)]}

\* The state before the first statement of a call.
InitLocals ==
    /\ height = 0
    /\ sent = 0
    /\ shape_q = <<>>
    /\ program_q = <<>>
    /\ vk_q = <<>>
    /\ panic_q = <<>>
    /\ shape_rx = Free
    /\ program_rx = Free
    /\ compiler = [w \in CompilerWorkers |-> [pc |-> "unspawned", item |-> None]]
    /\ setup = [w \in SetupWorkers |-> [pc |-> "unspawned", item |-> None]]
    /\ compiled = <<>>
    /\ set_up = <<>>
    /\ vk_set = {}
    /\ panic_indices = <<>>
    /\ compress_ok = None
    /\ result = None

InitRun ==
    /\ main_pc = "start"
    /\ all_shapes = <<>>
    /\ InitLocals

InitArgs(fn, reduce_batch_size, dummy, no_precompiles, workers, indices) ==
    args = [fn |-> fn,
            reduce_batch_size |-> reduce_batch_size,
            dummy |-> dummy,
            no_precompiles |-> no_precompiles,
            num_compiler_workers |-> workers[1],
            num_setup_workers |-> workers[2],
            indices |-> indices]

\* A call of check_shapes.
InitCheckShapes ==
    \E no_precompiles \in BOOLEAN, ncw \in 0..MaxWorkers :
        LET U == ShapeUniverse("check_shapes", core_shape_config, recursion_shape_config,
                               MaxBatch, no_precompiles)
        IN  /\ InitArgs("check_shapes", MaxBatch, FALSE, no_precompiles, <<ncw, 0>>, NoIndices)
            /\ \E F \in SUBSET FaultCandidates(U) :
                  oracle = [compile_faults |-> F, setup_faults |-> {},
                            digest |-> DigestOracle(U, FALSE)]

\* A call of build_vk_map.
InitBuildVkMap ==
    \E dummy \in BOOLEAN, workers \in WorkerCounts :
        LET U == ShapeUniverse("build_vk_map", core_shape_config, recursion_shape_config,
                               MaxBatch, FALSE)
        IN  \E sc \in Scenarios(U) :
               /\ InitArgs("build_vk_map", MaxBatch, dummy, FALSE, workers, sc.indices)
               /\ oracle = [compile_faults |-> sc.compile_faults,
                            setup_faults |-> sc.setup_faults,
                            digest |-> sc.digest]

Init ==
    /\ \E c \in PipelineConfigs :
          /\ core_shape_config = c.core
          /\ recursion_shape_config = c.rec
    /\ InitCheckShapes \/ InitBuildVkMap
    /\ InitRun

Next ==
    \/ Enumerate
    \/ DummyVkMap
    \/ EnumerateMaximal
    \/ Spawn
    \/ SendShape
    \/ DropShapeTx
    \/ DropProgramTx
    \/ DropVkTx
    \/ DropPanicTx
    \/ CollectVk
    \/ CollectPanic
    \/ WaitPanic
    \/ ScopeExit
    \/ \E w \in CompilerWorkers : CompilerLock(w)
    \/ \E w \in CompilerWorkers : CompilerRecv(w)
    \/ \E w \in CompilerWorkers : CompilerExit(w)
    \/ \E w \in CompilerWorkers : CompilerCompile(w)
    \/ \E w \in CompilerWorkers : CompilerSend(w)
    \/ \E w \in SetupWorkers : SetupLock(w)
    \/ \E w \in SetupWorkers : SetupRecv(w)
    \/ \E w \in SetupWorkers : SetupExit(w)
    \/ \E w \in SetupWorkers : SetupRun(w)

Spec == Init /\ [][Next]_vars

(***************************************************************************)
(* The catalog alone: the enumeration of a call, and the dummy map, over   *)
(* every configuration of at most MaxCore core shapes (repeated shapes     *)
(* included) and at most MaxAllowed allowed recursion shapes.              *)
(***************************************************************************)
InitCatalog ==
    /\ core_shape_config \in SeqUpTo(CoreMaps, MaxCore)
    /\ recursion_shape_config \in Prefixes(Map1(SortedEntries, SortedCoreMaps), MaxAllowed)
    /\ \E fn \in {"check_shapes", "build_vk_map"}, reduce_batch_size \in 0..MaxBatch,
          flag \in BOOLEAN :
          InitArgs(fn, reduce_batch_size, fn = "build_vk_map" /\ flag,
                   fn = "check_shapes" /\ flag, <<1, IF fn = "check_shapes" THEN 0 ELSE 1>>,
                   NoIndices)
    /\ oracle = [compile_faults |-> {}, setup_faults |-> {}, digest |-> <<>>]
    /\ InitRun

NextCatalog ==
    \/ Enumerate
    \/ DummyVkMap
    \/ EnumerateMaximal

SpecCatalog == InitCatalog /\ [][NextCatalog]_vars

(***************************************************************************)
(* The height alone: lines 173-176 (83-87) on catalogs of 0..MaxCount      *)
(* shapes.                                                                 *)
(***************************************************************************)
\* A sorted catalog of count Recursion shapes.
CatalogOfSize(count) == [p \in 1..count |-> Recursion(<< <<p, MaxLogShardSize>> >>)]

InitHeight ==
    /\ core_shape_config = <<>>
    /\ recursion_shape_config = <<>>
    /\ InitArgs("build_vk_map", 0, FALSE, FALSE, <<1, 1>>, NoIndices)
    /\ oracle = [compile_faults |-> {}, setup_faults |-> {}, digest |-> <<>>]
    /\ main_pc = "height"
    /\ all_shapes \in {CatalogOfSize(count) : count \in 0..MaxCount}
    /\ InitLocals

\* let num_shapes = all_shapes.len(); let height = ... (lines 173-176).
ComputeHeight ==
    /\ main_pc = "height"
    /\ height' = run_height(all_shapes, args.indices)
    /\ main_pc' = "spawn"
    /\ UNCHANGED <<args, core_shape_config, recursion_shape_config, oracle, all_shapes, sent,
                   shape_q, program_q, vk_q, panic_q, shape_rx, program_rx, compiler, setup,
                   compiled, set_up, vk_set, panic_indices, compress_ok, result>>

NextHeight == ComputeHeight

SpecHeight == InitHeight /\ [][NextHeight]_vars

(***************************************************************************)
(* ZKMProofShape::generate and the height of build_vk_map on larger        *)
(* configurations: up to MaxLeaves core shapes (one table, log-heights     *)
(* 1..MaxLeafHeight), up to MaxRecursionShapes allowed recursion shapes,   *)
(* reduce_batch_size 0..MaxReduceBatch.                                    *)
(***************************************************************************)
MaxLeaves == 4
MaxLeafHeight == 5
MaxRecursionShapes == 2
MaxReduceBatch == 2

\* The core shapes {1 -> h} for the log-heights h of H, in ascending order.
LeafConfig(H) ==
    [p \in 1..Cardinality(H) |->
        LET h == CHOOSE h \in H : Cardinality({k \in H : k < h}) = p - 1
        IN  [t \in {1} |-> h]]

\* The first n allowed recursion shapes {1 -> 1}, {1 -> 2}, ...
AllowedConfig(n) == [p \in 1..n |-> << <<1, p>> >>]

InitGenerate ==
    /\ \E H \in SUBSET (1..MaxLeafHeight) :
          /\ Cardinality(H) <= MaxLeaves
          /\ core_shape_config = LeafConfig(H)
    /\ \E n \in 0..MaxRecursionShapes : recursion_shape_config = AllowedConfig(n)
    /\ \E reduce_batch_size \in 0..MaxReduceBatch :
          InitArgs("build_vk_map", reduce_batch_size, FALSE, FALSE, <<1, 1>>, NoIndices)
    /\ oracle = [compile_faults |-> {}, setup_faults |-> {}, digest |-> <<>>]
    /\ InitRun

NextGenerate == Enumerate

SpecGenerate == InitGenerate /\ [][NextGenerate]_vars

(***************************************************************************)
(* build_vk_map_to_file (lines 275-305).  The dummy call of build_vk_map   *)
(* is computed as lines 148-158 compute it; the real call is the pipeline  *)
(* of Spec, and returns here any digest set over 0..MaxDigest with any     *)
(* failure list.  A digest is modelled by an integer, compared as the      *)
(* derived order of the digest arrays compares.                            *)
(***************************************************************************)
MaxDigest == 6

\* vk_set.into_iter(): the digests in ascending order.
IntoIter(S) ==
    [p \in 1..Cardinality(S) |->
        CHOOSE d \in S : Cardinality({e \in S : e < d}) = p - 1]

\* Faulty variant: the indices counted from 1.
vk_map_from_one(S) ==
    LET it == IntoIter(S)
    IN  [d \in S |-> CHOOSE p \in DOMAIN it : it[p] = d]

\* vk_set.into_iter().enumerate().map(|(i, vk)| (vk, i)).collect::<BTreeMap>()
vk_map_of(S) ==
    LET it == IntoIter(S)
    IN  [d \in S |-> (CHOOSE p \in DOMAIN it : it[p] = d) - 1]

\* The name of the file (lines 299-303).
file_name(dummy) == IF dummy THEN "dummy_vk_map.bin" ELSE "vk_map.bin"

\* The failure lists a real call returns here.
FailureLists == {<<>>, <<0>>}

InitFile ==
    /\ \E dummy \in BOOLEAN :
          /\ InitArgs("build_vk_map_to_file", IF dummy THEN MaxBatch ELSE 0, dummy, FALSE,
                      <<1, 1>>, NoIndices)
          /\ IF dummy
                THEN /\ core_shape_config \in SeqUpTo(CoreMaps, MaxCore)
                     /\ recursion_shape_config \in
                            Prefixes(Map1(SortedEntries, SortedCoreMaps), MaxAllowed)
                ELSE /\ core_shape_config = <<>>
                     /\ recursion_shape_config = <<>>
    /\ oracle = [compile_faults |-> {}, setup_faults |-> {}, digest |-> <<>>]
    /\ main_pc = "create_dir_all"
    /\ all_shapes = <<>>
    /\ InitLocals

\* std::fs::create_dir_all(&build_dir)? (line 284).
CreateDirAll ==
    /\ main_pc = "create_dir_all"
    /\ main_pc' \in {"build_vk_map", "err_dir"}
    /\ UNCHANGED <<args, core_shape_config, recursion_shape_config, oracle, all_shapes,
                   height, sent, shape_q, program_q, vk_q, panic_q, shape_rx, program_rx,
                   compiler, setup, compiled, set_up, vk_set, panic_indices, compress_ok,
                   result>>

\* let (vk_set, _, _) = build_vk_map(..) (lines 288-294).
BuildVkMapCall ==
    /\ main_pc = "build_vk_map"
    /\ IF args.dummy
          THEN LET dummy_set == DOMAIN dummy_vk_map(core_shape_config,
                                                   recursion_shape_config,
                                                   args.reduce_batch_size)
               IN  /\ vk_set' = dummy_set
                   /\ panic_indices' = <<>>
                   /\ height' = MerkleHeight(Cardinality(dummy_set))
          ELSE /\ vk_set' \in SUBSET (0..MaxDigest)
               /\ panic_indices' \in FailureLists
               /\ height' = height
    /\ main_pc' = "vk_map"
    /\ UNCHANGED <<args, core_shape_config, recursion_shape_config, oracle, all_shapes,
                   sent, shape_q, program_q, vk_q, panic_q, shape_rx, program_rx,
                   compiler, setup, compiled, set_up, compress_ok, result>>

\* Faulty variant: a run with failed shapes is turned into an error.
BuildVkMapOfSetStrict ==
    /\ main_pc = "vk_map"
    /\ IF panic_indices = <<>>
          THEN /\ result' = [vk_map |-> vk_map_of(vk_set), file |-> None, written |-> FALSE]
               /\ main_pc' = "create"
          ELSE /\ UNCHANGED result
               /\ main_pc' = "err_io"
    /\ UNCHANGED <<args, core_shape_config, recursion_shape_config, oracle, all_shapes,
                   height, sent, shape_q, program_q, vk_q, panic_q, shape_rx, program_rx,
                   compiler, setup, compiled, set_up, vk_set, panic_indices, compress_ok>>

\* let vk_map = ... (line 296).
BuildVkMapOfSet ==
    /\ main_pc = "vk_map"
    /\ result' = [vk_map |-> vk_map_of(vk_set), file |-> None, written |-> FALSE]
    /\ main_pc' = "create"
    /\ UNCHANGED <<args, core_shape_config, recursion_shape_config, oracle, all_shapes,
                   height, sent, shape_q, program_q, vk_q, panic_q, shape_rx, program_rx,
                   compiler, setup, compiled, set_up, vk_set, panic_indices, compress_ok>>

\* File::create(build_dir.join(..))? (lines 299-303): the file is created
\* empty, or the call fails and the function returns the error.
CreateFile ==
    /\ main_pc = "create"
    /\ \/ result' = [result EXCEPT !.file = file_name(args.dummy)] /\ main_pc' = "serialize"
       \/ UNCHANGED result /\ main_pc' = "err_io"
    /\ UNCHANGED <<args, core_shape_config, recursion_shape_config, oracle, all_shapes,
                   height, sent, shape_q, program_q, vk_q, panic_q, shape_rx, program_rx,
                   compiler, setup, compiled, set_up, vk_set, panic_indices, compress_ok>>

\* Faulty variant: a failed write throws the digest set away.
SerializeIntoDiscarding ==
    /\ main_pc = "serialize"
    /\ \/ result' = [result EXCEPT !.written = TRUE] /\ main_pc' = "ok" /\ UNCHANGED vk_set
       \/ UNCHANGED result /\ main_pc' = "err_bincode" /\ vk_set' = {}
    /\ UNCHANGED <<args, core_shape_config, recursion_shape_config, oracle, all_shapes,
                   height, sent, shape_q, program_q, vk_q, panic_q, shape_rx, program_rx,
                   compiler, setup, compiled, set_up, panic_indices, compress_ok>>

\* Ok(bincode::serialize_into(&mut file, &vk_map)?) (line 304).
SerializeInto ==
    /\ main_pc = "serialize"
    /\ \/ result' = [result EXCEPT !.written = TRUE] /\ main_pc' = "ok"
       \/ UNCHANGED result /\ main_pc' = "err_bincode"
    /\ UNCHANGED <<args, core_shape_config, recursion_shape_config, oracle, all_shapes,
                   height, sent, shape_q, program_q, vk_q, panic_q, shape_rx, program_rx,
                   compiler, setup, compiled, set_up, vk_set, panic_indices, compress_ok>>

NextFile ==
    \/ CreateDirAll
    \/ BuildVkMapCall
    \/ BuildVkMapOfSet
    \/ CreateFile
    \/ SerializeInto

SpecFile == InitFile /\ [][NextFile]_vars

(***************************************************************************)
(* build_vk_map_to_file with the call of build_vk_map run in full: the     *)
(* call makes args the arguments of build_vk_map (the caller's own         *)
(* arguments kept in caller), the pipeline above runs, and the return      *)
(* hands the digest set to the caller.                                     *)
(***************************************************************************)
\* Option<usize>: None, Some(k).
NoBound == <<>>
SomeBound(k) == <<k>>

\* Faulty variant: a missing end means up to the end of the catalog.
range_indices_open(range_start, range_end) ==
    IF range_start = NoBound THEN NoIndices
    ELSE IF range_end = NoBound THEN SomeIndices({i \in 0..MaxCount : i >= range_start[1]})
    ELSE SomeIndices(range_start[1]..(range_end[1] - 1))

\* range_start.and_then(|start| range_end.map(|end| (start..end).collect()))
\* (line 293).
range_indices(range_start, range_end) ==
    IF range_start = NoBound \/ range_end = NoBound THEN NoIndices
    ELSE SomeIndices(range_start[1]..(range_end[1] - 1))

\* The bounds tried for a catalog of n shapes: none, the first indices, the
\* last index, an index beyond the catalog.
RangeChoices(n) == {NoBound} \cup {SomeBound(k) : k \in {0, 1, n - 1, n + 1} \cap Nat}

\* What the collaborators do in the runs behind build_vk_map_to_file: no
\* fault, a compilation fault, a setup fault.
FileScenarios(U) ==
    LET K == FaultCandidates(U)
    IN  {[compile_faults |-> F, setup_faults |-> {}] : F \in {{}} \cup {{t} : t \in K}}
        \cup {[compile_faults |-> {}, setup_faults |-> {t}] :
                  t \in {k \in K : k.kind = "Shrink"}}

InitToFile ==
    /\ \E c \in PipelineConfigs :
          /\ core_shape_config = c.core
          /\ recursion_shape_config = c.rec
    /\ LET U == ShapeUniverse("build_vk_map", core_shape_config, recursion_shape_config,
                              MaxBatch, FALSE)
       IN  /\ \E dummy \in BOOLEAN, range_start \in RangeChoices(Cardinality(U)),
                 range_end \in RangeChoices(Cardinality(U)) :
                  args = [fn |-> "build_vk_map_to_file",
                          reduce_batch_size |-> MaxBatch,
                          dummy |-> dummy,
                          num_compiler_workers |-> 1,
                          num_setup_workers |-> 1,
                          range_start |-> range_start,
                          range_end |-> range_end]
           /\ \E sc \in FileScenarios(U) :
                  oracle = [compile_faults |-> sc.compile_faults,
                            setup_faults |-> sc.setup_faults,
                            digest |-> DigestOracle(U, FALSE)]
    /\ main_pc = "create_dir_all"
    /\ all_shapes = <<>>
    /\ InitLocals

\* build_vk_map(reduce_batch_size, dummy, num_compiler_workers,
\* num_setup_workers, range..) is entered (lines 288-294).
EnterBuildVkMap ==
    /\ main_pc = "build_vk_map"
    /\ args.fn = "build_vk_map_to_file"
    /\ args' = [fn |-> "build_vk_map",
                reduce_batch_size |-> args.reduce_batch_size,
                dummy |-> args.dummy,
                no_precompiles |-> FALSE,
                num_compiler_workers |-> args.num_compiler_workers,
                num_setup_workers |-> args.num_setup_workers,
                indices |-> range_indices(args.range_start, args.range_end),
                caller |-> args]
    /\ main_pc' = "start"
    /\ UNCHANGED <<core_shape_config, recursion_shape_config, oracle, all_shapes,
                   height, sent, shape_q, program_q, vk_q, panic_q, shape_rx, program_rx,
                   compiler, setup, compiled, set_up, vk_set, panic_indices, compress_ok,
                   result>>

\* let (vk_set, _, _) = the triple build_vk_map returns (line 288).
LeaveBuildVkMap ==
    /\ main_pc = "returned"
    /\ args.fn = "build_vk_map"
    /\ "caller" \in DOMAIN args
    /\ vk_set' = result.vk_set
    /\ result' = None
    /\ args' = args.caller
    /\ main_pc' = "vk_map"
    /\ UNCHANGED <<core_shape_config, recursion_shape_config, oracle, all_shapes,
                   height, sent, shape_q, program_q, vk_q, panic_q, shape_rx, program_rx,
                   compiler, setup, compiled, set_up, panic_indices, compress_ok>>

NextToFile ==
    \/ CreateDirAll
    \/ EnterBuildVkMap
    \/ Enumerate
    \/ DummyVkMap
    \/ Spawn
    \/ SendShape
    \/ DropShapeTx
    \/ DropProgramTx
    \/ DropVkTx
    \/ DropPanicTx
    \/ CollectVk
    \/ CollectPanic
    \/ ScopeExit
    \/ \E w \in CompilerWorkers : CompilerLock(w)
    \/ \E w \in CompilerWorkers : CompilerRecv(w)
    \/ \E w \in CompilerWorkers : CompilerExit(w)
    \/ \E w \in CompilerWorkers : CompilerCompile(w)
    \/ \E w \in CompilerWorkers : CompilerSend(w)
    \/ \E w \in SetupWorkers : SetupLock(w)
    \/ \E w \in SetupWorkers : SetupRecv(w)
    \/ \E w \in SetupWorkers : SetupExit(w)
    \/ \E w \in SetupWorkers : SetupRun(w)
    \/ LeaveBuildVkMap
    \/ BuildVkMapOfSet
    \/ CreateFile
    \/ SerializeInto

SpecToFile == InitToFile /\ [][NextToFile]_vars

(***************************************************************************)
(* The construction helpers of the recursion instructions                  *)
(* (crates/recursion/core/src/runtime/instruction.rs, lines 70-235).  An   *)
(* instruction is a record with its variant in tag.  A field element is    *)
(* the canonical representative in 0..KoalaBearP-1; a u32 argument is      *)
(* drawn from 0..MaxAddr and from one value above the modulus.             *)
(***************************************************************************)
MaxAddr == 2            \* the small u32 arguments are 0..MaxAddr
MaxWidth == 3           \* the width of the Poseidon2 arrays
MaxVecLen == 2          \* the vector arguments hold 0..MaxVecLen elements

\* The u32 arguments tried.
U32Samples == 0..MaxAddr \cup {KoalaBearP + 1}

\* F::from_canonical_u32: the element of the field the integer names.
from_canonical_u32(n) == n % KoalaBearP

\* Address(F::from_canonical_u32(a)).
Address(a) == [addr |-> from_canonical_u32(a)]

\* Block::from(val): the value followed by zeros.
BlockFrom(val) == <<val, 0, 0, 0>>

BaseAluOpcodes == {"AddF", "SubF", "MulF", "DivF"}
ExtAluOpcodes == {"AddE", "SubE", "MulE", "DivE"}
MemAccessKinds == {"Read", "Write"}

base_alu(opcode, mult, out, in1, in2) ==
    [tag |-> "BaseAlu",
     opcode |-> opcode,
     mult |-> from_canonical_u32(mult),
     addrs |-> [out |-> Address(out), in1 |-> Address(in1), in2 |-> Address(in2)]]

ext_alu(opcode, mult, out, in1, in2) ==
    [tag |-> "ExtAlu",
     opcode |-> opcode,
     mult |-> from_canonical_u32(mult),
     addrs |-> [out |-> Address(out), in1 |-> Address(in1), in2 |-> Address(in2)]]

mem_block(kind, mult, addr, val) ==
    [tag |-> "Mem",
     addrs |-> [inner |-> Address(addr)],
     vals |-> [inner |-> val],
     mult |-> from_canonical_u32(mult),
     kind |-> kind]

mem_single(kind, mult, addr, val) == mem_block(kind, mult, addr, BlockFrom(val))

mem(kind, mult, addr, val) == mem_single(kind, mult, addr, from_canonical_u32(val))

poseidon2(mults, output, input) ==
    [tag |-> "Poseidon2",
     mults |-> [i \in DOMAIN mults |-> from_canonical_u32(mults[i])],
     addrs |-> [output |-> [i \in DOMAIN output |-> Address(output[i])],
                input |-> [i \in DOMAIN input |-> Address(input[i])]]]

\* Faulty variant: the two multiplicities change places.
select_swapped(mult1, mult2, bit, out1, out2, in1, in2) ==
    [tag |-> "Select",
     mult1 |-> from_canonical_u32(mult2),
     mult2 |-> from_canonical_u32(mult1),
     addrs |-> [bit |-> Address(bit), out1 |-> Address(out1), out2 |-> Address(out2),
                in1 |-> Address(in1), in2 |-> Address(in2)]]

select(mult1, mult2, bit, out1, out2, in1, in2) ==
    [tag |-> "Select",
     mult1 |-> from_canonical_u32(mult1),
     mult2 |-> from_canonical_u32(mult2),
     addrs |-> [bit |-> Address(bit), out1 |-> Address(out1), out2 |-> Address(out2),
                in1 |-> Address(in1), in2 |-> Address(in2)]]

\* v.iter().map(|elm| Address(F::from_canonical_u32(*elm))).collect()
Addresses(v) == [p \in DOMAIN v |-> Address(v[p])]

fri_fold(z, alpha, x, mat_opening, ps_at_z, alpha_pow_input, ro_input, alpha_pow_output, ro_output, alpha_mults, ro_mults) ==
    [tag |-> "FriFold",
     base_single_addrs |-> [x |-> Address(x)],
     ext_single_addrs |-> [z |-> Address(z), alpha |-> Address(alpha)],
     ext_vec_addrs |-> [mat_opening |-> Addresses(mat_opening),
                        ps_at_z |-> Addresses(ps_at_z),
                        alpha_pow_input |-> Addresses(alpha_pow_input),
                        ro_input |-> Addresses(ro_input),
                        alpha_pow_output |-> Addresses(alpha_pow_output),
                        ro_output |-> Addresses(ro_output)],
     alpha_pow_mults |-> [p \in DOMAIN alpha_mults |-> from_canonical_u32(alpha_mults[p])],
     ro_mults |-> [p \in DOMAIN ro_mults |-> from_canonical_u32(ro_mults[p])]]

\* The vector b, b+1, .. of n elements.
Ramp(b, n) == [p \in 1..n |-> b + p - 1]

\* The calls of the helpers that are tried.
BaseAluCalls ==
    {[fn |-> "base_alu", opcode |-> op, mult |-> m, out |-> o, in1 |-> a, in2 |-> b] :
        op \in BaseAluOpcodes, m \in U32Samples, o \in U32Samples, a \in U32Samples,
        b \in U32Samples}

ExtAluCalls ==
    {[fn |-> "ext_alu", opcode |-> op, mult |-> m, out |-> o, in1 |-> a, in2 |-> b] :
        op \in ExtAluOpcodes, m \in U32Samples, o \in U32Samples, a \in U32Samples,
        b \in U32Samples}

MemCalls ==
    {[fn |-> "mem", kind |-> k, mult |-> m, addr |-> a, val |-> v] :
        k \in MemAccessKinds, m \in U32Samples, a \in U32Samples, v \in U32Samples}

Poseidon2Calls ==
    {[fn |-> "poseidon2", mults |-> ms, output |-> Ramp(o, MaxWidth),
      input |-> Ramp(i, MaxWidth)] :
        ms \in [1..MaxWidth -> U32Samples], o \in 0..MaxAddr, i \in 0..MaxAddr}

SelectCalls ==
    {[fn |-> "select", mult1 |-> m1, mult2 |-> m2, bit |-> b, out1 |-> o1, out2 |-> o2,
      in1 |-> b + 1, in2 |-> b + 2] :
        m1 \in U32Samples, m2 \in U32Samples, o1 \in U32Samples, o2 \in U32Samples,
        b \in 0..1}

FriFoldCalls ==
    {[fn |-> "fri_fold", z |-> 0, alpha |-> 1, x |-> x,
      mat_opening |-> Ramp(2, n), ps_at_z |-> Ramp(4, n),
      alpha_pow_input |-> Ramp(6, n), ro_input |-> Ramp(8, n),
      alpha_pow_output |-> Ramp(10, na), ro_output |-> Ramp(12, nr),
      alpha_mults |-> Ramp(1, ma), ro_mults |-> Ramp(KoalaBearP + 1, mr)] :
        x \in U32Samples, n \in 0..MaxVecLen, na \in 0..MaxVecLen, nr \in 0..MaxVecLen,
        ma \in 0..MaxVecLen, mr \in 0..MaxVecLen}

InitInstr ==
    /\ args \in BaseAluCalls \cup ExtAluCalls \cup MemCalls \cup Poseidon2Calls
                \cup SelectCalls \cup FriFoldCalls
    /\ core_shape_config = <<>>
    /\ recursion_shape_config = <<>>
    /\ oracle = [compile_faults |-> {}, setup_faults |-> {}, digest |-> <<>>]
    /\ main_pc = "start"
    /\ all_shapes = <<>>
    /\ height = 0
    /\ sent = 0
    /\ shape_q = <<>>
    /\ program_q = <<>>
    /\ vk_q = <<>>
    /\ panic_q = <<>>
    /\ shape_rx = Free
    /\ program_rx = Free
    /\ compiler = <<>>
    /\ setup = <<>>
    /\ compiled = <<>>
    /\ set_up = <<>>
    /\ vk_set = {}
    /\ panic_indices = <<>>
    /\ compress_ok = None
    /\ result = None

\* The helper returns the instruction.
ReturnInstruction(instruction) ==
    /\ main_pc = "start"
    /\ result' = instruction
    /\ main_pc' = "returned"
    /\ UNCHANGED <<args, core_shape_config, recursion_shape_config, oracle, all_shapes,
                   height, sent, shape_q, program_q, vk_q, panic_q, shape_rx, program_rx,
                   compiler, setup, compiled, set_up, vk_set, panic_indices, compress_ok>>

CallBaseAlu ==
    /\ args.fn = "base_alu"
    /\ ReturnInstruction(base_alu(args.opcode, args.mult, args.out, args.in1, args.in2))

CallExtAlu ==
    /\ args.fn = "ext_alu"
    /\ ReturnInstruction(ext_alu(args.opcode, args.mult, args.out, args.in1, args.in2))

CallMem ==
    /\ args.fn = "mem"
    /\ ReturnInstruction(mem(args.kind, args.mult, args.addr, args.val))

CallPoseidon2 ==
    /\ args.fn = "poseidon2"
    /\ ReturnInstruction(poseidon2(args.mults, args.output, args.input))

CallSelect ==
    /\ args.fn = "select"
    /\ ReturnInstruction(select(args.mult1, args.mult2, args.bit, args.out1, args.out2,
                                args.in1, args.in2))

CallFriFold ==
    /\ args.fn = "fri_fold"
    /\ ReturnInstruction(fri_fold(args.z, args.alpha, args.x, args.mat_opening,
                                  args.ps_at_z, args.alpha_pow_input, args.ro_input,
                                  args.alpha_pow_output, args.ro_output, args.alpha_mults,
                                  args.ro_mults))

NextInstr ==
    \/ CallBaseAlu
    \/ CallExtAlu
    \/ CallMem
    \/ CallPoseidon2
    \/ CallSelect
    \/ CallFriFold

SpecInstr == InitInstr /\ [][NextInstr]_vars

(***************************************************************************)
(* The Witnessable implementations of machine/witness.rs.  write appends   *)
(* elements to the witness stream; read allocates hint variables in the    *)
(* builder, which take the elements of the stream, each kind in its own    *)
(* order, when the program runs.  The writer, the builder and the          *)
(* implementations for field elements, booleans and vectors are not in     *)
(* this file: a configuration with Bit = Felt writes a boolean as the      *)
(* field element from_bool(b) in the stream of field elements, any other   *)
(* configuration writes it in a stream of its own.                         *)
(***************************************************************************)
MaxFelt == 2
MaxPath == 3
MaxIndex == 9

from_bool(b) == IF b THEN 1 ELSE 0

\* C::Bit is Felt in the inner configuration, Var in the outer one.
Configs == {"inner", "outer"}
BitKind(config) == IF config = "inner" THEN "felt" ELSE "var"

\* A component of a variable: the field, the enclosing field, the position.
Fld(in, name, at) == [in |-> in, name |-> name, at |-> at]

write_felt(x) == <<[kind |-> "felt", val |-> x]>>
write_bit(b, config) == <<[kind |-> BitKind(config), val |-> from_bool(b)]>>
read_felt(field) == <<[field |-> field, kind |-> "felt"]>>
read_bit(field, config) == <<[field |-> field, kind |-> BitKind(config)]>>

\* Vec<T>: the elements in order.
RECURSIVE write_vec(_)
write_vec(v) == IF v = <<>> THEN <<>> ELSE write_felt(Head(v)) \o write_vec(Tail(v))

read_vec(name, v) == [k \in 1..Len(v) |-> [field |-> Fld("", name, k - 1), kind |-> "felt"]]

\* What read returns: the hint variables in the order of their allocation,
\* and the components that are copies of the value's.
Hints(h) == [hints |-> h, copies |-> {}]

\* Word<T> (lines 31-41).
write_Word(self, config) == write_felt(self["0"])
read_Word(self, config) == Hints(read_felt(Fld("", "0", 0)))

\* DuplexChallenger (lines 43-61).
write_DuplexChallenger(self, config) ==
    write_felt(self.sponge_state) \o write_felt(self.input_buffer)
        \o write_felt(self.output_buffer)

read_DuplexChallenger(self, config) ==
    Hints(read_felt(Fld("", "sponge_state", 0)) \o read_felt(Fld("", "input_buffer", 0))
              \o read_felt(Fld("", "output_buffer", 0)))

\* Hash<F, W, DIGEST_ELEMENTS> (lines 63-79).
write_Hash(self, config) == write_vec(self.array)
read_Hash(self, config) == Hints(read_vec("array", self.array))

\* StarkVerifyingKey (lines 104-108).
write_StarkVerifyingKey(self) ==
    write_felt(self.commit) \o write_felt(self.pc_start)
        \o write_felt(self.initial_global_cumulative_sum)

\* StarkVerifyingKey (lines 89-102).
read_StarkVerifyingKey(self, in) ==
    [hints |-> read_felt(Fld(in, "commitment", 0)) \o read_felt(Fld(in, "pc_start", 0))
                   \o read_felt(Fld(in, "initial_global_cumulative_sum", 0)),
     copies |-> {[field |-> Fld(in, "chip_information", 0), val |-> self.chip_information],
                 [field |-> Fld(in, "chip_ordering", 0), val |-> self.chip_ordering]}]

\* ZKMRecursionWitnessValues (lines 126-132).
write_ZKMRecursionWitnessValues(self, config) ==
    write_StarkVerifyingKey(self.vk) \o write_felt(self.shard_proofs)
        \o write_bit(self.is_complete, config) \o write_bit(self.is_first_shard, config)
        \o write_felt(self.vk_root)

\* ZKMRecursionWitnessValues (lines 117-124).
read_ZKMRecursionWitnessValues(self, config) ==
    LET vk == read_StarkVerifyingKey(self.vk, "vk")
    IN  [hints |-> vk.hints \o read_felt(Fld("", "shard_proofs", 0))
                       \o read_felt(Fld("", "is_complete", 0))
                       \o read_felt(Fld("", "is_first_shard", 0))
                       \o read_felt(Fld("", "vk_root", 0)),
         copies |-> vk.copies]

\* ZKMCompressWitnessValues (lines 150-153).
write_ZKMCompressWitnessValues(self, config) ==
    write_felt(self.vks_and_proofs) \o write_felt(from_bool(self.is_complete))

\* ZKMCompressWitnessValues (lines 143-148).
read_ZKMCompressWitnessValues(self, config) ==
    Hints(read_felt(Fld("", "vks_and_proofs", 0)) \o read_felt(Fld("", "is_complete", 0)))

\* Faulty variant: end_pc and end_shard are written in the other order.
write_ZKMDeferredWitnessValuesSwapped(self, config) ==
    write_felt(self.vks_and_proofs) \o write_felt(self.vk_merkle_data)
        \o write_felt(self.start_reconstruct_deferred_digest)
        \o write_felt(self.zkm_vk_digest) \o write_felt(self.committed_value_digest)
        \o write_felt(self.deferred_proofs_digest) \o write_felt(self.end_shard)
        \o write_felt(self.end_pc) \o write_felt(self.end_execution_shard)
        \o write_felt(self.init_addr_bits) \o write_felt(self.finalize_addr_bits)
        \o write_bit(self.is_complete, config)

\* ZKMDeferredWitnessValues (lines 193-206).
write_ZKMDeferredWitnessValues(self, config) ==
    write_felt(self.vks_and_proofs) \o write_felt(self.vk_merkle_data)
        \o write_felt(self.start_reconstruct_deferred_digest)
        \o write_felt(self.zkm_vk_digest) \o write_felt(self.committed_value_digest)
        \o write_felt(self.deferred_proofs_digest) \o write_felt(self.end_pc)
        \o write_felt(self.end_shard) \o write_felt(self.end_execution_shard)
        \o write_felt(self.init_addr_bits) \o write_felt(self.finalize_addr_bits)
        \o write_bit(self.is_complete, config)

\* ZKMDeferredWitnessValues (lines 162-191).
read_ZKMDeferredWitnessValues(self, config) ==
    Hints(read_felt(Fld("", "vks_and_proofs", 0)) \o read_felt(Fld("", "vk_merkle_data", 0))
              \o read_felt(Fld("", "start_reconstruct_deferred_digest", 0))
              \o read_felt(Fld("", "zkm_vk_digest", 0))
              \o read_felt(Fld("", "committed_value_digest", 0))
              \o read_felt(Fld("", "deferred_proofs_digest", 0))
              \o read_felt(Fld("", "end_pc", 0)) \o read_felt(Fld("", "end_shard", 0))
              \o read_felt(Fld("", "end_execution_shard", 0))
              \o read_felt(Fld("", "init_addr_bits", 0))
              \o read_felt(Fld("", "finalize_addr_bits", 0))
              \o read_felt(Fld("", "is_complete", 0)))

\* Faulty variant: the bits of the index, most significant first.
RECURSIVE index_bits_msb_first(_, _)
index_bits_msb_first(index, len) ==
    IF len = 0 THEN <<>>
    ELSE <<(index \div 2^(len - 1)) % 2 = 1>> \o index_bits_msb_first(index, len - 1)

\* for _ in 0..self.path.len() { index % 2 == 1; index >>= 1 } (lines 217-221,
\* 229-233).
RECURSIVE index_bits(_, _)
index_bits(index, len) ==
    IF len = 0 THEN <<>>
    ELSE <<index % 2 = 1>> \o index_bits(index \div 2, len - 1)

\* MerkleProof (lines 228-235).
write_MerkleProof(self, config) ==
    LET bits == index_bits(self.index, Len(self.path))
        RECURSIVE write_bits(_)
        write_bits(b) == IF b = <<>> THEN <<>>
                         ELSE write_bit(Head(b), config) \o write_bits(Tail(b))
    IN  write_bits(bits) \o write_vec(self.path)

\* MerkleProof (lines 215-226).
read_MerkleProof(self, config) ==
    LET bits == index_bits(self.index, Len(self.path))
    IN  Hints([k \in 1..Len(bits) |->
                   [field |-> Fld("", "index", k - 1), kind |-> BitKind(config)]]
              \o read_vec("path", self.path))

\* ZKMMerkleProofWitnessValues (lines 255-259).
write_ZKMMerkleProofWitnessValues(self, config) ==
    write_felt(self.vk_merkle_proofs) \o write_felt(self.values) \o write_felt(self.root)

\* ZKMMerkleProofWitnessValues (lines 247-253).
read_ZKMMerkleProofWitnessValues(self, config) ==
    Hints(read_felt(Fld("", "vk_merkle_proofs", 0)) \o read_felt(Fld("", "values", 0))
              \o read_felt(Fld("", "root", 0)))

\* The implementation of the value's type.
write(impl, self, config) ==
    CASE impl = "Word" -> write_Word(self, config)
      [] impl = "DuplexChallenger" -> write_DuplexChallenger(self, config)
      [] impl = "Hash" -> write_Hash(self, config)
      [] impl = "StarkVerifyingKey" -> write_StarkVerifyingKey(self)
      [] impl = "ZKMRecursionWitnessValues" -> write_ZKMRecursionWitnessValues(self, config)
      [] impl = "ZKMCompressWitnessValues" -> write_ZKMCompressWitnessValues(self, config)
      [] impl = "ZKMDeferredWitnessValues" -> write_ZKMDeferredWitnessValues(self, config)
      [] impl = "MerkleProof" -> write_MerkleProof(self, config)
      [] impl = "ZKMMerkleProofWitnessValues" -> write_ZKMMerkleProofWitnessValues(self, config)

read(impl, self, config) ==
    CASE impl = "Word" -> read_Word(self, config)
      [] impl = "DuplexChallenger" -> read_DuplexChallenger(self, config)
      [] impl = "Hash" -> read_Hash(self, config)
      [] impl = "StarkVerifyingKey" -> read_StarkVerifyingKey(self, "")
      [] impl = "ZKMRecursionWitnessValues" -> read_ZKMRecursionWitnessValues(self, config)
      [] impl = "ZKMCompressWitnessValues" -> read_ZKMCompressWitnessValues(self, config)
      [] impl = "ZKMDeferredWitnessValues" -> read_ZKMDeferredWitnessValues(self, config)
      [] impl = "MerkleProof" -> read_MerkleProof(self, config)
      [] impl = "ZKMMerkleProofWitnessValues" -> read_ZKMMerkleProofWitnessValues(self, config)

\* The element hint k takes when the program runs: the next one of its kind
\* in the stream, -1 when the stream has none left.
HintValue(hints, witness, k) ==
    LET nth == Cardinality({j \in 1..k : hints[j].kind = hints[k].kind})
        at == {p \in DOMAIN witness :
                  /\ witness[p].kind = hints[k].kind
                  /\ Cardinality({q \in 1..p : witness[q].kind = hints[k].kind}) = nth}
    IN  IF at = {} THEN -1 ELSE witness[CHOOSE p \in at : TRUE].val

\* The variable read builds, with the values its components take.
Variable(r, witness) ==
    {[field |-> r.hints[k].field, val |-> HintValue(r.hints, witness, k)] :
        k \in DOMAIN r.hints} \cup r.copies

\* The values tried: at most two components differ from zero (from false).
ValuesOf(fields, bools) ==
    {[f \in fields |-> IF f \in bools THEN f \in S ELSE IF f \in S THEN x ELSE 0] :
        S \in {T \in SUBSET fields : Cardinality(T) <= 2}, x \in 1..MaxFelt}

VkFields ==
    {"commit", "pc_start", "initial_global_cumulative_sum", "chip_information",
     "chip_ordering"}

RecursionFields == {"vk", "shard_proofs", "is_complete", "is_first_shard", "vk_root"}

DeferredFields ==
    {"vks_and_proofs", "vk_merkle_data", "start_reconstruct_deferred_digest",
     "zkm_vk_digest", "committed_value_digest", "deferred_proofs_digest", "end_pc",
     "end_shard", "end_execution_shard", "init_addr_bits", "finalize_addr_bits",
     "is_complete"}

\* The vectors tried: a ramp from x, of every length up to n.
Vectors(n) == {[i \in 1..len |-> (x + i) % (MaxFelt + 1)] : len \in 0..n, x \in 0..MaxFelt}

\* The Bit = Felt<InnerVal> bound of lines 113 and 158 leaves these two
\* implementations to the inner configuration.
ConfigsOf(impl) ==
    IF impl \in {"ZKMRecursionWitnessValues", "ZKMDeferredWitnessValues"} THEN {"inner"}
    ELSE Configs

WitnessValues ==
    [Word |-> ValuesOf({"0"}, {}),
     DuplexChallenger |-> ValuesOf({"sponge_state", "input_buffer", "output_buffer"}, {}),
     Hash |-> {[array |-> v] : v \in Vectors(MaxPath)},
     StarkVerifyingKey |-> ValuesOf(VkFields, {}),
     ZKMRecursionWitnessValues |->
         {[v EXCEPT !.vk = k] : v \in ValuesOf(RecursionFields, {"is_complete", "is_first_shard"}),
                                k \in ValuesOf(VkFields, {})},
     ZKMCompressWitnessValues |-> ValuesOf({"vks_and_proofs", "is_complete"}, {"is_complete"}),
     ZKMDeferredWitnessValues |-> ValuesOf(DeferredFields, {"is_complete"}),
     MerkleProof |-> {[index |-> n, path |-> v] : n \in 0..MaxIndex, v \in Vectors(MaxPath)},
     ZKMMerkleProofWitnessValues |-> ValuesOf({"vk_merkle_proofs", "values", "root"}, {})]

\* Nothing of the key pipeline runs.
NoPipeline ==
    /\ core_shape_config = <<>>
    /\ recursion_shape_config = <<>>
    /\ oracle = [compile_faults |-> {}, setup_faults |-> {}, digest |-> <<>>]
    /\ all_shapes = <<>>
    /\ height = 0
    /\ sent = 0
    /\ shape_q = <<>>
    /\ program_q = <<>>
    /\ vk_q = <<>>
    /\ panic_q = <<>>
    /\ shape_rx = Free
    /\ program_rx = Free
    /\ compiler = <<>>
    /\ setup = <<>>
    /\ compiled = <<>>
    /\ set_up = <<>>
    /\ vk_set = {}
    /\ panic_indices = <<>>
    /\ compress_ok = None

InitWitness ==
    /\ \E impl \in DOMAIN WitnessValues :
          \E self \in WitnessValues[impl], config \in ConfigsOf(impl) :
              args = [impl |-> impl, self |-> self, config |-> config]
    /\ main_pc = "start"
    /\ result = None
    /\ NoPipeline

\* value.write(&mut witness): the stream of the value.
Write ==
    /\ main_pc = "start"
    /\ result' = [witness |-> write(args.impl, args.self, args.config)]
    /\ main_pc' = "written"
    /\ UNCHANGED <<args, core_shape_config, recursion_shape_config, oracle, all_shapes,
                   height, sent, shape_q, program_q, vk_q, panic_q, shape_rx, program_rx,
                   compiler, setup, compiled, set_up, vk_set, panic_indices, compress_ok>>

\* value.read(&mut builder), and the run of the program on the stream.
Read ==
    /\ main_pc = "written"
    /\ LET r == read(args.impl, args.self, args.config)
       IN  result' = [witness |-> result.witness,
                      hints |-> r.hints,
                      variable |-> Variable(r, result.witness)]
    /\ main_pc' = "read"
    /\ UNCHANGED <<args, core_shape_config, recursion_shape_config, oracle, all_shapes,
                   height, sent, shape_q, program_q, vk_q, panic_q, shape_rx, program_rx,
                   compiler, setup, compiled, set_up, vk_set, panic_indices, compress_ok>>

NextWitness ==
    \/ Write
    \/ Read

SpecWitness == InitWitness /\ [][NextWitness]_vars

(***************************************************************************)
(* syscall_verify_zkm_proof (zkvm/entrypoint/src/syscalls/verify.rs).  The *)
(* global DEFERRED_PROOFS_DIGEST, its initial value and the hash are not   *)
(* in this file: the digest starts as the zero digest the entry point      *)
(* stores, and the hash is a free constructor, the digest being the list   *)
(* of what was absorbed.                                                   *)
(***************************************************************************)
MaxCalls == 3

Targets == {"zkvm", "other"}

\* [KoalaBear::zero(); 8], absorbed nothing.
ZeroDigest == <<>>

hash_deferred_proof(prev_digest, vk, pv) ==
    Append(prev_digest, [vk_digest |-> vk, pv_digest |-> pv])

from_canonical_u8(b) == b

\* &[u32; 8] and &[u8; 32] arguments: the same word, the same byte, at every
\* position.
VkDigests == {[i \in 1..8 |-> x] : x \in {0, 1, KoalaBearP + 1}}
PvDigests == {[i \in 1..32 |-> b] : b \in {0, 255}}

InitVerify ==
    /\ \E target \in Targets : args = [target |-> target, calls |-> <<>>]
    /\ main_pc = "running"
    /\ result = [DEFERRED_PROOFS_DIGEST |-> ZeroDigest, syscalls |-> <<>>]
    /\ NoPipeline

\* Faulty variant: the hash starts from the zero digest at every call.
syscall_verify_zkm_proof_from_zero(vk, pv) ==
    /\ main_pc = "running"
    /\ Len(args.calls) < MaxCalls
    /\ args' = [args EXCEPT !.calls = Append(@, [vk_digest |-> vk,
                                                 pv_digest |-> pv])]
    /\ IF args.target = "zkvm"
          THEN /\ result' =
                      [DEFERRED_PROOFS_DIGEST |->
                           hash_deferred_proof(ZeroDigest,
                                               [i \in 1..8 |-> from_canonical_u32(vk[i])],
                                               [i \in 1..32 |-> from_canonical_u8(pv[i])]),
                       syscalls |-> Append(result.syscalls,
                                           [code |-> "VERIFY_ZKM_PROOF", a0 |-> vk,
                                            a1 |-> pv])]
               /\ UNCHANGED main_pc
          ELSE /\ main_pc' = "panicked"
               /\ UNCHANGED result
    /\ UNCHANGED <<core_shape_config, recursion_shape_config, oracle, all_shapes,
                   height, sent, shape_q, program_q, vk_q, panic_q, shape_rx, program_rx,
                   compiler, setup, compiled, set_up, vk_set, panic_indices, compress_ok>>

\* syscall_verify_zkm_proof (lines 16-55): on the zkvm target the syscall is
\* issued (lines 20-27) and the digest is replaced (lines 30-50); on any
\* other target unreachable!() panics (lines 53-54).
syscall_verify_zkm_proof(vk, pv) ==
    /\ main_pc = "running"
    /\ Len(args.calls) < MaxCalls
    /\ args' = [args EXCEPT !.calls = Append(@, [vk_digest |-> vk,
                                                 pv_digest |-> pv])]
    /\ IF args.target = "zkvm"
          THEN /\ result' =
                      [DEFERRED_PROOFS_DIGEST |->
                           hash_deferred_proof(result.DEFERRED_PROOFS_DIGEST,
                                               [i \in 1..8 |-> from_canonical_u32(vk[i])],
                                               [i \in 1..32 |-> from_canonical_u8(pv[i])]),
                       syscalls |-> Append(result.syscalls,
                                           [code |-> "VERIFY_ZKM_PROOF", a0 |-> vk,
                                            a1 |-> pv])]
               /\ UNCHANGED main_pc
          ELSE /\ main_pc' = "panicked"
               /\ UNCHANGED result
    /\ UNCHANGED <<core_shape_config, recursion_shape_config, oracle, all_shapes,
                   height, sent, shape_q, program_q, vk_q, panic_q, shape_rx, program_rx,
                   compiler, setup, compiled, set_up, vk_set, panic_indices, compress_ok>>

NextVerify ==
    \E vk \in VkDigests, pv \in PvDigests :
        syscall_verify_zkm_proof(vk, pv)

SpecVerify == InitVerify /\ [][NextVerify]_vars

(***************************************************************************)
(* GlobalLookupOperation (core/machine/src/operations/global_lookup.rs):   *)
(* the columns populate fills for the sign of the y coordinate, and the    *)
(* constraints eval_single_digest puts on them.  The point comes from      *)
(* SepticCurve::lift_x, which is not in this file: a receive has           *)
(* 1 <= y_6 <= (p - 1) / 2, a send, the negated point, has                 *)
(* (p + 1) / 2 <= y_6 <= p - 1.  Field elements are their canonical        *)
(* representatives in 0 .. p - 1.                                          *)
(***************************************************************************)
MaxLow == 2

\* F::ORDER_U32 of KoalaBear.
ORDER_U32 == KoalaBearP

div_ceil(a, b) == (a + b - 1) \div b

\* Field operations on canonical representatives, without leaving 32 bits.
AddMod(a, b) == IF a >= ORDER_U32 - b THEN a - (ORDER_U32 - b) ELSE a + b
SubMod(a, b) == IF a >= b THEN a - b ELSE a + (ORDER_U32 - b)

\* The one element of a singleton set.
The(S) == CHOOSE x \in S : TRUE

\* a * b by doubling, over the smaller of b and -b.
RECURSIVE MulMod(_, _)
MulMod(a, b) ==
    IF b = 0 THEN 0
    ELSE IF b > ORDER_U32 \div 2 THEN The({SubMod(0, m) : m \in {MulMod(a, ORDER_U32 - b)}})
    ELSE The({IF b % 2 = 1 THEN AddMod(AddMod(h, h), a) ELSE AddMod(h, h) :
                 h \in {MulMod(a, b \div 2)}})

\* Field::inverse of a non-zero element, by Euclid's algorithm:
\* x^-1 = -(p div x) * (p mod x)^-1.
RECURSIVE inverse(_)
inverse(x) ==
    IF x = 1 THEN 1
    ELSE The({SubMod(0, MulMod(ORDER_U32 \div x, i)) : i \in {inverse(ORDER_U32 % x)}})

\* The sum of the columns lo .. hi of a bit decomposition.
RECURSIVE SumBits(_, _, _)
SumBits(bits, lo, hi) == IF lo > hi THEN 0 ELSE bits[hi] + SumBits(bits, lo, hi - 1)

\* The 30 columns populate writes: (range_check_value >> i) & 1 (line 69).
y6_bit_decomp_of(range_check_value) == [i \in 0..29 |-> (range_check_value \div 2^i) % 2]

\* The offset populate subtracts from y_6 (lines 62-66).
populate_offset(is_receive) == IF is_receive THEN 1 ELSE div_ceil(ORDER_U32, 2)

\* The offset of the constraints on y_6 (lines 202-206).
eval_offset(is_receive) == IF is_receive THEN 1 ELSE 2^30 - 2^23 + 1

\* Faulty variant: only the top 6 bits are summed.
eval_top_bits_from_24(y6_bit_decomp) == SumBits(y6_bit_decomp, 24, 29)

\* top_7_bits of eval_single_digest: the columns with i >= 23 (lines 189-191).
eval_top_7_bits(y6_bit_decomp) == SumBits(y6_bit_decomp, 23, 29)

\* y6_value of eval_single_digest (line 188), for boolean columns.
RECURSIVE eval_y6_value(_, _)
eval_y6_value(y6_bit_decomp, hi) ==
    IF hi < 0 THEN 0 ELSE y6_bit_decomp[hi] * 2^hi + eval_y6_value(y6_bit_decomp, hi - 1)

\* The constraints of lines 184-206 on a row.
eval_single_digest(cols, is_receive, is_send, is_real) ==
    /\ \A i \in 0..29 : cols.y6_bit_decomp[i] \in {0, 1}
    /\ is_real =>
           MulMod(cols.range_check_witness,
                  SubMod(eval_top_7_bits(cols.y6_bit_decomp), 7)) = 1
    /\ is_receive => cols.y6 = AddMod(eval_offset(TRUE), eval_y6_value(cols.y6_bit_decomp, 29))
    /\ is_send => cols.y6 = AddMod(eval_offset(FALSE), eval_y6_value(cols.y6_bit_decomp, 29))

\* The values below (p - 1) / 2 that are tried: every pattern of the top 7
\* bits, with the low 23 bits near zero or near all ones.
LowParts == 0..MaxLow \cup {2^23 - 1 - k : k \in 0..MaxLow}
RangeValues == {top * 2^23 + low : top \in 0..127, low \in LowParts}

\* The calls of populate: y_6 of the point of get_digest, of the sign of the
\* direction.
PopulateCalls ==
    {[is_receive |-> r, is_real |-> TRUE, y6 |-> populate_offset(r) + v] :
        r \in BOOLEAN, v \in {w \in RangeValues : w < (ORDER_U32 - 1) \div 2}}
    \cup {[is_receive |-> r, is_real |-> FALSE, y6 |-> 0] : r \in BOOLEAN}

\* The rows of a trace that populate did not fill: the direction only.
OtherRows == {[is_receive |-> r, is_real |-> TRUE] : r \in BOOLEAN}

InitLookup ==
    /\ \/ args \in PopulateCalls /\ main_pc = "start"
       \/ args \in OtherRows /\ main_pc = "forge"
    /\ result = None
    /\ NoPipeline

\* populate (lines 55-82) and populate_dummy (lines 95-98): the columns of
\* the sign check.
populate ==
    /\ main_pc = "start"
    /\ IF args.is_real
          THEN LET range_check_value == args.y6 - populate_offset(args.is_receive)
                   y6_bit_decomp == y6_bit_decomp_of(range_check_value)
                   top_7_bits == SubMod(SumBits(y6_bit_decomp, 23, 29), 7)
               IN  result' = [y6 |-> args.y6,
                              y6_bit_decomp |-> y6_bit_decomp,
                              range_check_witness |-> inverse(top_7_bits)]
          ELSE result' = [y6 |-> 0,
                          y6_bit_decomp |-> [i \in 0..29 |-> 0],
                          range_check_witness |-> 0]
    /\ main_pc' = "populated"
    /\ UNCHANGED <<args, core_shape_config, recursion_shape_config, oracle, all_shapes,
                   height, sent, shape_q, program_q, vk_q, panic_q, shape_rx, program_rx,
                   compiler, setup, compiled, set_up, vk_set, panic_indices, compress_ok>>

\* A row that was not made by populate: any y_6, any decomposition, one
\* column possibly not a bit, any of the witnesses that can matter.
ForgeRow ==
    /\ main_pc = "forge"
    /\ \E v \in RangeValues, bad \in {-1, 0, 29}, offset \in {0, 1, eval_offset(FALSE)},
          w \in {0} \cup {inverse(SubMod(t, 7)) : t \in 0..6} :
          result' = [y6 |-> AddMod(offset, v),
                     y6_bit_decomp |-> [i \in 0..29 |->
                                           IF i = bad THEN 2 ELSE y6_bit_decomp_of(v)[i]],
                     range_check_witness |-> w]
    /\ main_pc' = "forged"
    /\ UNCHANGED <<args, core_shape_config, recursion_shape_config, oracle, all_shapes,
                   height, sent, shape_q, program_q, vk_q, panic_q, shape_rx, program_rx,
                   compiler, setup, compiled, set_up, vk_set, panic_indices, compress_ok>>

\* The constraints are evaluated on the row.
EvalSingleDigest ==
    /\ main_pc \in {"populated", "forged"}
    /\ result' = [cols |-> result,
                  accepted |-> eval_single_digest(result, args.is_real /\ args.is_receive,
                                                  args.is_real /\ ~args.is_receive,
                                                  args.is_real)]
    /\ main_pc' = IF main_pc = "populated" THEN "evaluated" ELSE "evaluated_forged"
    /\ UNCHANGED <<args, core_shape_config, recursion_shape_config, oracle, all_shapes,
                   height, sent, shape_q, program_q, vk_q, panic_q, shape_rx, program_rx,
                   compiler, setup, compiled, set_up, vk_set, panic_indices, compress_ok>>

NextLookup ==
    \/ populate
    \/ ForgeRow
    \/ EvalSingleDigest

SpecLookup == InitLookup /\ [][NextLookup]_vars

(***************************************************************************)
(* Properties.                                                             *)
(***************************************************************************)
RealRun == args.fn = "build_vk_map" /\ ~args.dummy
Returned == main_pc = "returned"

\* The sorted, deduplicated catalog of the configuration.
FullCatalog ==
    BTreeSetSeq(Range(generate(core_shape_config, recursion_shape_config,
                               args.reduce_batch_size)))

\* The indices of the catalog the call asks for.
RequestedIndices ==
    IF args.indices = NoIndices THEN 0..(Len(FullCatalog) - 1)
    ELSE args.indices[1] \cap 0..(Len(FullCatalog) - 1)

\* The requested indices whose shape faults in compilation.
FaultingIndices == {i \in RequestedIndices : FullCatalog[i + 1] \in oracle.compile_faults}

\* The digests of the requested shapes that compile.
ExpectedDigests ==
    {oracle.digest[FullCatalog[i + 1]] : i \in RequestedIndices \ FaultingIndices}

\* ceil(log2(n)) for n >= 1.
CeilLog2(n) == CHOOSE h \in 0..n : 2^h >= n /\ \A k \in 0..(h - 1) : 2^k < n

Max(a, b) == IF a > b THEN a ELSE b

\* The run has stopped for good without the calling thread having finished.
Blocked == main_pc \notin {"returned", "panicked"} /\ ~ENABLED Next

\* C1: the digest set a real build_vk_map run returns is the set of the
\* digests of the requested shapes that compile: a function of the catalog,
\* the per-shape outcomes and the indices alone, the same for every number of
\* compiler and setup workers and every interleaving.
C1_DigestSetDeterministic ==
    (RealRun /\ Returned) => result.vk_set = ExpectedDigests

C1_Witness ==
    /\ RealRun /\ Returned
    /\ args.num_compiler_workers >= 2
    /\ args.num_setup_workers >= 2
    /\ Cardinality(result.vk_set) >= 3

\* C2: when compilation faults for the shapes at the indices K, no compiler
\* worker dies, every requested shape is still compiled, and the run returns
\* a failure list holding exactly the indices of K, once each, and a digest
\* set holding the digest of every requested shape outside K.
C2_FaultIsolation ==
    RealRun =>
        /\ \A w \in CompilerWorkers : compiler[w].pc # "panicked"
        /\ Returned =>
              /\ Range(result.panic_indices) = FaultingIndices
              /\ Len(result.panic_indices) = Cardinality(FaultingIndices)
              /\ ExpectedDigests \subseteq result.vk_set
              /\ Range(compiled) = RequestedIndices

C2_Witness ==
    /\ RealRun /\ Returned
    /\ args.num_compiler_workers = 1
    /\ Len(result.panic_indices) >= 2
    /\ Cardinality(result.vk_set) >= 2
    /\ \E p, q \in DOMAIN compiled :
          p < q /\ compiled[p] \in FaultingIndices /\ compiled[q] \notin FaultingIndices

\* The indices whose setup was run and panicked.
SetupFaulted == {i \in Range(set_up) : FullCatalog[i + 1] \in oracle.setup_faults}

\* C3 (as claimed): once setup has panicked for a program, the run neither
\* aborts nor blocks, and when it returns the index of that program is in the
\* failure list and every other requested shape was compiled.
C3_SetupFaultIsolated ==
    (RealRun /\ SetupFaulted # {}) =>
        /\ main_pc # "panicked"
        /\ ~Blocked
        /\ Returned =>
              /\ SetupFaulted \subseteq Range(result.panic_indices)
              /\ Range(compiled) = RequestedIndices

\* C4 (as claimed): a worker that is compiling does not hold the lock of
\* shape_rx, and a worker that is running setup does not hold the lock of
\* program_rx.
C4_NoLockWhileWorking ==
    /\ \A w \in CompilerWorkers :
          compiler[w].pc \in {"compile", "send"} => w \notin shape_rx.locked_by
    /\ \A w \in SetupWorkers :
          setup[w].pc = "setup" => w \notin program_rx.locked_by

\* C5 (as claimed, for runs with at least one worker in every stage): no
\* reachable state is a deadlock; a run stops only when the calling thread
\* has finished.
C5_NoDeadlock ==
    (/\ args.num_compiler_workers >= 1
     /\ args.fn = "build_vk_map" => args.num_setup_workers >= 1)
        => ~Blocked

\* C6: with an index set S, only shapes whose index is in S are compiled and
\* set up; at the return every shape of the catalog with its index in S has
\* been compiled once, and set up once unless its compilation faulted; the
\* height returned is that of the size of the full catalog.
C6_SubsetRestriction ==
    (RealRun /\ args.indices # NoIndices) =>
        /\ Range(compiled) \subseteq args.indices[1]
        /\ Range(set_up) \subseteq args.indices[1]
        /\ Returned =>
              /\ Range(compiled) = RequestedIndices
              /\ Len(compiled) = Cardinality(RequestedIndices)
              /\ Range(set_up) = RequestedIndices \ FaultingIndices
              /\ Len(set_up) = Cardinality(RequestedIndices \ FaultingIndices)
              /\ result.height = CeilLog2(Max(1, Len(FullCatalog)))

C6_Witness ==
    /\ RealRun /\ Returned
    /\ args.indices # NoIndices
    /\ Cardinality(args.indices[1]) = 3
    /\ Len(compiled) = 2
    /\ Len(set_up) = 1
    /\ result.height # CeilLog2(2)

\* C7: the height computed for a catalog of count shapes is
\* ceil(log2(max(1, count))): 0 for 0 and 1 shapes, 3 for 5 and for 8.
C7_HeightFormula ==
    main_pc = "spawn" =>
        /\ height = CeilLog2(Max(1, num_shapes))
        /\ num_shapes \in {0, 1} => height = 0
        /\ num_shapes \in {5, 8} => height = 3

C7_Witness == main_pc = "spawn" /\ num_shapes = 8 /\ height = 3

\* C8 (as claimed): a dummy run compiles nothing, sets nothing up, spawns no
\* worker, and returns as many digests as the deduplicated catalog has shapes.
C8_DummyCardinality ==
    (args.fn = "build_vk_map" /\ args.dummy /\ Returned) =>
        /\ compiled = <<>>
        /\ set_up = <<>>
        /\ \A w \in CompilerWorkers : compiler[w].pc = "unspawned"
        /\ \A w \in SetupWorkers : setup[w].pc = "unspawned"
        /\ Cardinality(result.vk_set) = Len(FullCatalog)

\* C9: check_shapes returns true exactly when no maximal shape faults in
\* compilation, and when it returns every maximal shape has been compiled
\* once and every worker has ended.
C9_CheckShapesVerdict ==
    (args.fn = "check_shapes" /\ Returned) =>
        /\ result = (\A p \in DOMAIN all_shapes : all_shapes[p] \notin oracle.compile_faults)
        /\ Range(compiled) = 0..(num_shapes - 1)
        /\ Len(compiled) = num_shapes
        /\ \A w \in CompilerWorkers : Ended(compiler[w])

C9_Witness ==
    /\ args.fn = "check_shapes" /\ Returned
    /\ result = FALSE
    /\ args.num_compiler_workers >= 2
    /\ Len(compiled) >= 3

\* C10 (as claimed): the catalog a call enumerates is the one every other
\* invocation of the generator with the same configuration yields.
C10_SameCatalogEveryInvocation ==
    (main_pc # "start" /\ ~args.dummy) =>
        IF args.fn = "check_shapes"
        THEN \A order \in CoreIterationOrders(core_shape_config, args.no_precompiles) :
                all_shapes = BTreeSetSeq(Range(generate_maximal_shapes(
                                 core_shape_config, recursion_shape_config,
                                 args.reduce_batch_size, args.no_precompiles, order)))
        ELSE all_shapes = FullCatalog

\* The OrderedShape with the entries of s in the canonical order.
Canonical(s) ==
    CHOOSE c \in [DOMAIN s -> Range(s)] :
        /\ Range(c) = Range(s)
        /\ \A i \in 1..(Len(c) - 1) : LessEntry(c[i], c[i + 1])

\* C11 (as claimed): every shape of the maximal catalog is equal to the shape
\* that holds the same (table, log-height) entries in the canonical order,
\* the Recursion shapes collected from the entries of a core shape included.
C11_EqualWhateverEntryOrder ==
    (args.fn = "check_shapes" /\ main_pc # "start") =>
        \A p \in DOMAIN all_shapes :
            \A k \in DOMAIN all_shapes[p].shapes :
                all_shapes[p].shapes[k] = Canonical(all_shapes[p].shapes[k])

\* The shapes of a variant in the enumerated catalog.
OfKind(k) == {x \in Range(all_shapes) : x.kind = k}

\* C12: the catalog build_vk_map collects from generate holds exactly the
\* Recursion shape of every core shape, the Compress shape of every k-way
\* combination of allowed shapes for every k in 1..reduce_batch_size, and
\* the Deferred and the Shrink shape of every allowed shape; with
\* reduce_batch_size = 0 it holds no Compress shape.
C12_CatalogComposition ==
    (RealRun /\ main_pc # "start") =>
        LET allowed == Range(recursion_shape_config)
        IN  /\ OfKind("Recursion") =
                  {Recursion(SortedEntries(core_shape_config[i])) : i \in DOMAIN core_shape_config}
            /\ OfKind("Compress") =
                  UNION {{Compress(l) : l \in [1..k -> allowed]} :
                            k \in 1..args.reduce_batch_size}
            /\ OfKind("Deferred") = {Deferred(x) : x \in allowed}
            /\ OfKind("Shrink") = {Shrink(x) : x \in allowed}
            /\ args.reduce_batch_size = 0 => OfKind("Compress") = {}

C12_Witness ==
    /\ RealRun /\ main_pc = "spawn"
    /\ args.reduce_batch_size = 2
    /\ Cardinality(OfKind("Recursion")) = 3
    /\ Cardinality(OfKind("Compress")) = 6
    /\ Cardinality(OfKind("Deferred")) = 2

\* The configuration of the worked example: 4 leaf shapes and 2 Compress
\* shapes, with batch size 1 only.
WorkedExample ==
    /\ RealRun /\ main_pc = "spawn"
    /\ args.reduce_batch_size = 1
    /\ Cardinality(OfKind("Recursion")) = 4
    /\ Cardinality(OfKind("Compress")) = 2

ProgramItems ==
    {compiler[w].item : w \in {v \in CompilerWorkers : compiler[v].pc = "send"}}
    \cup Range(program_q)
    \cup {setup[w].item : w \in {v \in SetupWorkers : setup[v].pc = "setup"}}

\* The program of the shape at index i of the catalog of the run.
ProgramOfIndex(i) ==
    [ok |-> TRUE, program_of |-> from_proof_shape(all_shapes[i + 1], height)]

C15_HeightOfDigestCount ==
    (RealRun /\ Returned /\ args.indices = NoIndices) =>
        result.height = CeilLog2(Max(1, Cardinality(result.vk_set)))

\* C16: the map build_vk_map_to_file persists gives every digest of the
\* returned set one index, the indices are exactly 0..N-1 for the N digests,
\* no index is used twice, and a smaller digest has a smaller index.
C16_DenseOrderedIndex ==
    (args.fn = "build_vk_map_to_file" /\ main_pc = "ok") =>
        LET m == result.vk_map
            N == Cardinality(vk_set)
        IN  /\ result.written
            /\ DOMAIN m = vk_set
            /\ {m[d] : d \in vk_set} = 0..(N - 1)
            /\ \A d1, d2 \in vk_set : d1 < d2 => m[d1] < m[d2]
            /\ \A d1, d2 \in vk_set : m[d1] = m[d2] => d1 = d2

C16_Witness ==
    /\ args.fn = "build_vk_map_to_file" /\ main_pc = "ok"
    /\ vk_set = {1, 3, 6}
    /\ result.vk_map[6] = 2

\* The workers of each stage that are inside recv() of the stage's receiver.
CompilersReceiving == {w \in CompilerWorkers : compiler[w].pc = "recv"}
SetupsReceiving == {w \in SetupWorkers : setup[w].pc = "recv"}

\* C18: at most one compiler worker is inside the recv of shape_rx and at
\* most one setup worker inside the recv of program_rx, and a worker inside
\* recv holds the lock of its receiver.
C18_OneReceiverAtATime ==
    /\ Cardinality(CompilersReceiving) <= 1
    /\ Cardinality(SetupsReceiving) <= 1
    /\ CompilersReceiving \subseteq shape_rx.locked_by
    /\ SetupsReceiving \subseteq program_rx.locked_by

C18_Witness ==
    /\ RealRun
    /\ \E v, w \in CompilerWorkers : compiler[v].pc = "recv" /\ compiler[w].pc = "lock"
    /\ \E v, w \in SetupWorkers : setup[v].pc = "recv" /\ setup[w].pc = "lock"

\* The state of the run's state machine: 0 Idle, 1 Dispatching, 2 Draining,
\* 3 Aggregated (the digest set and the failure list are both collected).
Phase(pc) ==
    CASE pc \in {"start", "spawn"} -> 0
      [] pc = "send" -> 1
      [] pc \in {"drop_program_tx", "drop_vk_tx", "drop_panic_tx", "collect_vk",
                 "collect_panic"} -> 2
      [] pc \in {"join", "returned", "panicked"} -> 3

\* The digest set has been collected from the vk channel.
DigestSetMaterialized == main_pc \in {"collect_panic", "join", "returned", "panicked"}

\* Every shape was sent, the shape queue is closed, both queues are empty and
\* every worker has stopped sending.
Drained ==
    /\ sent = Len(Dispatch)
    /\ ShapeDisconnected
    /\ shape_q = <<>>
    /\ program_q = <<>>
    /\ \A w \in CompilerWorkers : Ended(compiler[w])
    /\ \A w \in SetupWorkers : Ended(setup[w])

\* Nothing a worker produced is missing from the collected result.
NothingMissing ==
    /\ vk_q = <<>>
    /\ panic_q = <<>>
    /\ \A p \in DOMAIN compiled :
          compiled[p] \in FaultingIndices => compiled[p] \in Range(panic_indices)
    /\ \A p \in DOMAIN set_up :
          oracle.digest[FullCatalog[set_up[p] + 1]] \in vk_set

\* C19 (as claimed): a real run moves through Idle, Dispatching, Draining and
\* Aggregated one step at a time and never back; the digest set and the
\* failure list are collected only when the run is drained, and nothing that
\* was produced is missing from them.
C19_PhaseOrder ==
    /\ [](RealRun => (DigestSetMaterialized => Drained))
    /\ [](RealRun => (Phase(main_pc) = 3 => NothingMissing))
    /\ [][RealRun => Phase(main_pc') \in {Phase(main_pc), Phase(main_pc) + 1}]_vars

\* The rank of a shape among the shapes of the catalog of the run.
Rank(shape) == Cardinality({t \in Range(all_shapes) : LessProofShape(t, shape)})

\* The (index, shape) items before compilation: in the shape queue and in
\* the hands of a compiler worker.
ShapeItems ==
    Range(shape_q)
    \cup {compiler[w].item : w \in {v \in CompilerWorkers : compiler[v].pc = "compile"}}

\* C20: the catalog a real run collects is the sorted, deduplicated full
\* catalog; the index that travels with a shape, and then with its program,
\* is the rank of the shape in it, from the dispatch to the setup or to the
\* failure record; every reported failure index is the index of a shape whose
\* compilation faults, and the returned failure list holds exactly the
\* requested indices of such shapes, whatever the interleaving and the worker
\* counts.
C20_IndexIsCatalogRank ==
    RealRun =>
        /\ main_pc = "spawn" => all_shapes = FullCatalog
        /\ \A it \in ShapeItems :
              /\ ProofShapeOf(it.shape) \in Range(all_shapes)
              /\ it.i = Rank(ProofShapeOf(it.shape))
        /\ \A it \in ProgramItems :
              /\ ProofShapeOf(it.program.program_of) \in Range(all_shapes)
              /\ it.i = Rank(ProofShapeOf(it.program.program_of))
        /\ \A p \in DOMAIN panic_q : all_shapes[panic_q[p] + 1] \in oracle.compile_faults
        /\ Returned =>
              /\ all_shapes = FullCatalog
              /\ Range(result.panic_indices) = FaultingIndices

C20_Witness ==
    /\ RealRun
    /\ args.indices # NoIndices
    /\ panic_q = <<0>>
    /\ \E it \in ProgramItems : it.i = 4 /\ it.program.program_of.kind = "Shrink"


\* The positions of build_vk_map_to_file before build_vk_map has returned
\* and after it.
BeforeReturn == {"create_dir_all", "build_vk_map", "err_dir"}
AfterReturn == {"vk_map", "create", "serialize", "ok", "err_io", "err_bincode"}

Spawned ==
    {<<"compiler", w>> : w \in {v \in CompilerWorkers : compiler[v].pc # "unspawned"}}
    \cup {<<"setup", w>> : w \in {v \in SetupWorkers : setup[v].pc # "unspawned"}}

\* C22: the enumeration of the shapes and the height are complete before the
\* first worker is spawned: where the shapes are still to be enumerated no
\* worker exists and nothing is dispatched, and where a worker exists or a
\* shape is dispatched the catalog and its height are the computed ones.
C22_EnumerationBeforeWorkers ==
    /\ main_pc \in {"start", "spawn"} =>
           /\ Spawned = {}
           /\ sent = 0
           /\ shape_q = <<>> /\ program_q = <<>> /\ vk_q = <<>> /\ panic_q = <<>>
    /\ main_pc = "start" => all_shapes = <<>>
    /\ (Spawned # {} \/ sent > 0) =>
           /\ main_pc \notin {"start", "spawn"}
           /\ height = MerkleHeight(Len(all_shapes))
           /\ sent <= Len(all_shapes)

C22_Witness ==
    /\ main_pc = "spawn"
    /\ Len(all_shapes) = 5
    /\ height = 3
    /\ Spawned = {}
    /\ args.num_compiler_workers >= 2


\* C23: the shape queue never holds more than num_compiler_workers items and
\* the program queue never more than num_setup_workers; a send on a full
\* queue cannot happen (the sender waits), a send on a queue below its
\* capacity can.
C23_BoundedQueues ==
    /\ Len(shape_q) <= args.num_compiler_workers
    /\ Len(program_q) <= args.num_setup_workers
    /\ (main_pc = "send" /\ sent < Len(Dispatch)) =>
           (ENABLED SendShape <=> Len(shape_q) < args.num_compiler_workers)
    /\ \A w \in CompilerWorkers :
           compiler[w].pc = "send" =>
               (ENABLED CompilerSend(w) <=> Len(program_q) < args.num_setup_workers)

C23_Witness ==
    /\ RealRun
    /\ args.num_compiler_workers >= 2 /\ Len(shape_q) = args.num_compiler_workers
    /\ main_pc = "send" /\ sent < Len(Dispatch) /\ ~ENABLED SendShape
    /\ args.num_setup_workers >= 1 /\ Len(program_q) = args.num_setup_workers
    /\ \E w \in CompilerWorkers : compiler[w].pc = "send" /\ ~ENABLED CompilerSend(w)


\* C24: a worker ends only when the queue of its stage is closed and empty:
\* a compiler worker ends only with the shape queue empty and the shape
\* sender dropped, a setup worker only with the program queue empty and
\* every program sender (the calling thread's and each compiler worker's)
\* dropped.
C24_ExitOnlyWhenDrained ==
    [][/\ \A w \in CompilerWorkers :
              (~Ended(compiler[w]) /\ Ended(compiler[w])') =>
                  (shape_q = <<>> /\ ShapeDisconnected)
       /\ \A w \in SetupWorkers :
              (~Ended(setup[w]) /\ Ended(setup[w])') =>
                  (program_q = <<>> /\ ProgramDisconnected)]_vars


\* The number of positions of seq that hold x.
Count(seq, x) == Cardinality({p \in DOMAIN seq : seq[p] = x})

\* The places of a real run where the dispatched index i is on its way: the
\* shape queue, a compiler worker, the program queue, a setup worker.
OnTheWay(i) ==
    Cardinality({p \in DOMAIN shape_q : shape_q[p].i = i})
    + Cardinality({w \in CompilerWorkers :
                      compiler[w].pc \in {"compile", "send"} /\ compiler[w].item.i = i})
    + Cardinality({p \in DOMAIN program_q : program_q[p].i = i})
    + Cardinality({w \in SetupWorkers : setup[w].pc = "setup" /\ setup[w].item.i = i})

\* The failure reports of index i, sent or already collected.
FailuresOf(i) == Count(panic_q, i) + Count(panic_indices, i)

\* C25: in a real run every dispatched index is at every moment either on
\* its way at exactly one place, or has exactly one outcome: its program went
\* through setup once and one digest was sent for it, or its index is
\* reported as failed once; never both, never neither.  At the return the
\* digests sent and the failures reported add up to the dispatched shapes
\* and the failure list has no duplicate.
C25_ExactlyOneOutcome ==
    (RealRun /\ main_pc \notin {"start", "spawn"}) =>
        /\ \A k \in 1..sent :
               LET i == Dispatch[k].i
               IN  /\ OnTheWay(i) + Count(set_up, i) + FailuresOf(i) = 1
                   /\ Count(compiled, i) <= 1
                   /\ Count(set_up, i) + FailuresOf(i) = 1 => Count(compiled, i) = 1
        /\ main_pc \in {"send", "drop_program_tx", "drop_vk_tx", "drop_panic_tx",
                         "collect_vk"} => Len(vk_q) = Len(set_up)
        /\ Returned =>
               /\ Len(set_up) + Len(result.panic_indices) = Len(Dispatch)
               /\ \A p, q \in DOMAIN result.panic_indices :
                      result.panic_indices[p] = result.panic_indices[q] => p = q


\* C26: the flag that travels with a program is true exactly for the program
\* of a Shrink shape and belongs to the index the program belongs to, and a
\* setup worker about to run setup takes the shrink prover exactly for the
\* program of a Shrink shape, the compress prover for the programs of the
\* Recursion, Compress and Deferred shapes.
C26_ShrinkSetupForShrinkOnly ==
    RealRun =>
        /\ \A it \in ProgramItems :
               /\ it.program = ProgramOfIndex(it.i)
               /\ it.is_shrink <=> all_shapes[it.i + 1].kind = "Shrink"
               /\ it.is_shrink <=> it.program.program_of.kind = "Shrink"
        /\ \A w \in SetupWorkers :
               setup[w].pc = "setup" =>
                   LET kind == all_shapes[setup[w].item.i + 1].kind
                       used == setup_prover(setup[w].item.is_shrink)
                   IN  /\ kind = "Shrink" => used = "shrink_prover"
                       /\ kind \in {"Recursion", "Compress", "Deferred"} =>
                              used = "compress_prover"

C26_Witness ==
    /\ RealRun
    /\ \E w \in SetupWorkers :
           /\ setup[w].pc = "setup"
           /\ setup[w].item.is_shrink
           /\ all_shapes[setup[w].item.i + 1].kind = "Shrink"
           /\ setup_prover(setup[w].item.is_shrink) = "shrink_prover"
    /\ \E p \in DOMAIN set_up : all_shapes[set_up[p] + 1].kind = "Deferred"


\* C27: every program shape dispatched in a run of build_vk_map or
\* check_shapes keeps the variant and the inner shapes of the catalog shape
\* at its index; the Compress, Deferred and Shrink ones all carry the one
\* height the run computed from its whole catalog, in subset mode too, the
\* Deferred and Shrink ones hold one inner shape, and the Recursion ones
\* carry no height.  The programs made from them keep the same shape.
C27_OneHeightPerRun ==
    (args.fn \in {"build_vk_map", "check_shapes"} /\ ~args.dummy) =>
        \A shape \in {it.shape : it \in ShapeItems}
                     \cup {it.program.program_of : it \in ProgramItems} :
            /\ ProofShapeOf(shape) \in Range(all_shapes)
            /\ shape.kind \in {"Deferred", "Shrink"} => Len(shape.shapes) = 1
            /\ shape.kind = "Recursion" => shape.merkle_tree_height = None
            /\ shape.kind # "Recursion" =>
                   /\ shape.merkle_tree_height = height
                   /\ height = MerkleHeight(Len(all_shapes))

C27_Witness ==
    /\ RealRun
    /\ args.indices # NoIndices
    /\ Len(Dispatch) < Len(all_shapes)
    /\ height = 3
    /\ \E it \in ShapeItems : it.shape.kind = "Shrink" /\ it.shape.merkle_tree_height = 3
    /\ \E p \in DOMAIN compiled : all_shapes[compiled[p] + 1].kind = "Recursion"


\* The helper of the call has returned its instruction.
Built(fn) == args.fn = fn /\ main_pc = "returned"

\* C28: every construction helper stores each multiplicity and address it
\* is given, as the field element of the integer, in the field it names:
\* base_alu and ext_alu put mult with out and keep in1 and in2 in order,
\* mem puts mult with addr under the requested access kind, poseidon2 puts
\* mults[i] with output[i], select puts mult1 with out1 and mult2 with out2.
C28_HelpersKeepMultiplicities ==
    /\ (Built("base_alu") \/ Built("ext_alu")) =>
           /\ result.tag = (IF args.fn = "base_alu" THEN "BaseAlu" ELSE "ExtAlu")
           /\ result.opcode = args.opcode
           /\ result.mult = from_canonical_u32(args.mult)
           /\ result.addrs.out.addr = from_canonical_u32(args.out)
           /\ result.addrs.in1.addr = from_canonical_u32(args.in1)
           /\ result.addrs.in2.addr = from_canonical_u32(args.in2)
    /\ Built("mem") =>
           /\ result.tag = "Mem"
           /\ result.kind = args.kind
           /\ result.mult = from_canonical_u32(args.mult)
           /\ result.addrs.inner.addr = from_canonical_u32(args.addr)
           /\ result.vals.inner[1] = from_canonical_u32(args.val)
    /\ Built("poseidon2") =>
           /\ result.tag = "Poseidon2"
           /\ DOMAIN result.mults = 1..MaxWidth
           /\ \A i \in 1..MaxWidth :
                  /\ result.mults[i] = from_canonical_u32(args.mults[i])
                  /\ result.addrs.output[i].addr = from_canonical_u32(args.output[i])
                  /\ result.addrs.input[i].addr = from_canonical_u32(args.input[i])
    /\ Built("select") =>
           /\ result.tag = "Select"
           /\ result.mult1 = from_canonical_u32(args.mult1)
           /\ result.mult2 = from_canonical_u32(args.mult2)
           /\ result.addrs.out1.addr = from_canonical_u32(args.out1)
           /\ result.addrs.out2.addr = from_canonical_u32(args.out2)
           /\ result.addrs.bit.addr = from_canonical_u32(args.bit)
           /\ result.addrs.in1.addr = from_canonical_u32(args.in1)
           /\ result.addrs.in2.addr = from_canonical_u32(args.in2)

C28_Witness ==
    /\ Built("select")
    /\ args.mult1 = 1 /\ args.mult2 = 2 /\ args.out1 = 0 /\ args.out2 = KoalaBearP + 1
    /\ result.mult1 = 1 /\ result.mult2 = 2
    /\ result.addrs.out2.addr = 1

\* C29 (as claimed): every FriFold instruction fri_fold builds has as many
\* alpha_pow_mults as alpha_pow_output addresses and as many ro_mults as
\* ro_output addresses.
C29_OneMultPerOutput ==
    Built("fri_fold") =>
        /\ Len(result.alpha_pow_mults) = Len(result.ext_vec_addrs.alpha_pow_output)
        /\ Len(result.ro_mults) = Len(result.ext_vec_addrs.ro_output)


\* C30: in dummy mode the digest of the shape enumerated at index i is the
\* array of DIGEST_SIZE copies of i (here its element i), two indices never
\* share a digest, the failure list is empty, and the map that
\* build_vk_map_to_file persists sends the digest of index i back to i.
C30_DummyDigestIsIndex ==
    (args.fn = "build_vk_map_to_file" /\ args.dummy
        /\ main_pc \in {"create", "serialize", "ok", "err_io", "err_bincode"}) =>
        LET n == Len(generate(core_shape_config, recursion_shape_config,
                              args.reduce_batch_size))
            m == dummy_vk_map(core_shape_config, recursion_shape_config,
                              args.reduce_batch_size)
        IN  /\ vk_set = 0..(n - 1)
            /\ panic_indices = <<>>
            /\ DOMAIN m = 0..(n - 1)
            /\ \A i \in 0..(n - 1) : m[i] = i /\ result.vk_map[i] = i
            /\ \A i, j \in 0..(n - 1) : i # j => DummyDigest(i) # DummyDigest(j)

C30_Witness ==
    /\ args.fn = "build_vk_map_to_file" /\ args.dummy
    /\ main_pc = "ok"
    /\ result.file = "dummy_vk_map.bin"
    /\ Cardinality(vk_set) >= 5
    /\ result.vk_map[4] = 4


\* The number of positions of a list of shapes that hold a shape of the
\* kind with n inner shapes.
CountKind(shapes, kind, n) ==
    Cardinality({p \in DOMAIN shapes : shapes[p].kind = kind /\ Len(shapes[p].shapes) = n})

\* C31: with reduce_batch_size >= 1 the catalog of generate and of
\* generate_maximal_shapes holds as many Deferred shapes as Shrink shapes and
\* as Compress shapes of batch size 1, in the enumeration of generate and in
\* the collected set alike.
C31_SameCountFromOneWay ==
    (main_pc = "spawn" /\ args.reduce_batch_size >= 1) =>
        /\ CountKind(all_shapes, "Deferred", 1) = CountKind(all_shapes, "Shrink", 1)
        /\ CountKind(all_shapes, "Shrink", 1) = CountKind(all_shapes, "Compress", 1)
        /\ CountKind(all_shapes, "Deferred", 1) = Len(recursion_shape_config)
        /\ args.fn = "build_vk_map" =>
               LET g == generate(core_shape_config, recursion_shape_config,
                                 args.reduce_batch_size)
               IN  /\ CountKind(g, "Deferred", 1) = CountKind(g, "Shrink", 1)
                   /\ CountKind(g, "Shrink", 1) = CountKind(g, "Compress", 1)

C31_Witness ==
    /\ main_pc = "spawn"
    /\ args.fn = "check_shapes"
    /\ args.reduce_batch_size >= 1
    /\ CountKind(all_shapes, "Shrink", 1) >= 1
    /\ CountKind(all_shapes, "Recursion", 1) >= 2


\* C32: what a dummy run of build_vk_map returns is fixed by the
\* configuration and the batch size alone: the digests of all enumerated
\* shapes, the empty failure list and the height of their number, whatever
\* the indices argument and the worker counts are; no worker is spawned and
\* nothing is dispatched.
C32_DummyIgnoresIndicesAndWorkers ==
    (args.fn = "build_vk_map" /\ args.dummy /\ Returned) =>
        LET n == Len(generate(core_shape_config, recursion_shape_config,
                              args.reduce_batch_size))
        IN  /\ result = [vk_set |-> 0..(n - 1), panic_indices |-> <<>>,
                         height |-> MerkleHeight(n)]
            /\ sent = 0
            /\ \A w \in CompilerWorkers : compiler[w].pc = "unspawned"
            /\ \A w \in SetupWorkers : setup[w].pc = "unspawned"

C32_Witness ==
    /\ args.fn = "build_vk_map" /\ args.dummy /\ Returned
    /\ args.indices = SomeIndices({0})
    /\ args.num_compiler_workers >= 2
    /\ Cardinality(result.vk_set) >= 5

\* The call is in build_vk_map_to_file itself, not in the build_vk_map it calls.
InFile == args.fn = "build_vk_map_to_file"

\* C33: build_vk_map_to_file does not look at the list of failed indices.
\* Whatever build_vk_map returned, the map of the digest set is built, the
\* file can be created and written and the function can return Ok; the only
\* ways out of the function are Ok and the errors of the directory creation,
\* the file creation and the serialization; at Ok the map of the digests that
\* were produced has been written to the file.
C33_OutcomeIgnoresFailures ==
    /\ (InFile /\ main_pc = "vk_map") => ENABLED (BuildVkMapOfSet /\ main_pc' = "create")
    /\ (InFile /\ main_pc = "create") => ENABLED (CreateFile /\ main_pc' = "serialize")
    /\ (InFile /\ main_pc = "serialize") => ENABLED (SerializeInto /\ main_pc' = "ok")
    /\ InFile => main_pc \in {"create_dir_all", "err_dir", "build_vk_map", "vk_map", "create",
                              "serialize", "ok", "err_io", "err_bincode"}
    /\ (InFile /\ main_pc = "ok") =>
           /\ result.written
           /\ result.file = file_name(args.dummy)
           /\ result.vk_map = vk_map_of(vk_set)
           /\ \/ args.dummy
              \/ vk_set = {oracle.digest[all_shapes[set_up[k] + 1]] : k \in DOMAIN set_up}

\* Ok is returned after a run in which a shape failed to compile and others
\* produced digests.
C33_Witness ==
    /\ InFile
    /\ main_pc = "ok"
    /\ panic_indices # <<>>
    /\ vk_set # {}
    /\ result.written

\* The arguments build_vk_map_to_file was called with.
FileArgs == IF InFile THEN args ELSE args.caller

\* The indices of a catalog of n shapes that the range of the call asks for.
RangeOf(n) ==
    IF FileArgs.range_start = NoBound \/ FileArgs.range_end = NoBound THEN 0..(n - 1)
    ELSE {i \in 0..(n - 1) : FileArgs.range_start[1] <= i /\ i < FileArgs.range_end[1]}

\* The shapes of the range are exactly the ones that were compiled; the
\* digest set is the one of those that did not fault; the failure list holds
\* the others.
RangeProcessed ==
    LET R == RangeOf(Len(all_shapes))
        faulting == {i \in R : all_shapes[i + 1] \in oracle.compile_faults}
    IN  /\ Range(compiled) = R
        /\ Len(compiled) = Cardinality(R)
        /\ vk_set = {oracle.digest[all_shapes[i + 1]] : i \in R \ faulting}
        /\ Range(panic_indices) = faulting

\* Nothing outside the range is ever handed to a worker.
RangeRespected ==
    /\ Range(compiled) \subseteq RangeOf(Len(all_shapes))
    /\ \A k \in DOMAIN shape_q : shape_q[k].i \in RangeOf(Len(all_shapes))

\* An empty range writes an empty map.
EmptyRangeWritesEmptyMap ==
    (/\ FileArgs.range_start # NoBound
     /\ FileArgs.range_end # NoBound
     /\ FileArgs.range_start[1] >= FileArgs.range_end[1]) =>
        /\ compiled = <<>>
        /\ DOMAIN result.vk_map = {}
        /\ result.written

\* C34 (as stated, for every call): the run is restricted to the indices i
\* of the catalog with range_start <= i < range_end when both bounds are
\* given and covers the whole catalog otherwise; an empty range processes
\* nothing and writes an empty map; indices beyond the catalog are ignored.
C34_RangeRestrictsEveryRun ==
    /\ RangeRespected
    /\ (InFile /\ main_pc \in {"vk_map", "create", "serialize", "ok"}) => RangeProcessed
    /\ (InFile /\ main_pc = "ok") => EmptyRangeWritesEmptyMap

\* C34 (amended): the same, for the calls that are not dummy calls.
C34_RangeRestrictsRealRuns ==
    ~FileArgs.dummy =>
        /\ RangeRespected
        /\ (InFile /\ main_pc \in {"vk_map", "create", "serialize", "ok"}) => RangeProcessed
        /\ (InFile /\ main_pc = "ok") => EmptyRangeWritesEmptyMap

\* A real call with both bounds given, the end beyond the catalog, has
\* written the digests of a proper part of the catalog.
C34_Witness ==
    /\ InFile /\ ~args.dummy
    /\ main_pc = "ok"
    /\ args.range_start # NoBound /\ args.range_end # NoBound
    /\ args.range_start[1] >= 1
    /\ args.range_end[1] > Len(all_shapes)
    /\ vk_set # {}
    /\ result.written

\* The components that are booleans in the value.
BoolFields == {"is_complete", "is_first_shard"}

\* The field of the variable that stands for a field of the value.
VariableField(f) == IF f = "commit" THEN "commitment" ELSE f

\* Every field of the variable with the value of the same field of the value
\* (a boolean as the field element 0 or 1).
SameFields(in, self) ==
    {[field |-> Fld(in, VariableField(f), 0),
      val |-> IF f \in BoolFields THEN from_bool(self[f]) ELSE self[f]] :
        f \in DOMAIN self \ {"vk", "array"}}

ExpectedVariable(self) ==
    SameFields("", self)
        \cup (IF "vk" \in DOMAIN self THEN SameFields("vk", self.vk) ELSE {})
        \cup (IF "array" \in DOMAIN self
                 THEN {[field |-> Fld("", "array", k - 1), val |-> self.array[k]] :
                          k \in DOMAIN self.array}
                 ELSE {})

\* C35: for every Witnessable implementation of witness.rs, write emits the
\* witnessed components in the order in which read allocates their
\* variables, each as an element of the kind read asks for, so that every
\* field of the variable takes the value of the same field of the value that
\* was written; the chip information and the chip ordering of a verifying
\* key, which read copies, are no part of what write emits.
C35_WriteMatchesRead ==
    (main_pc = "read") =>
        /\ Len(result.witness) = Len(result.hints)
        /\ \A k \in DOMAIN result.hints : result.witness[k].kind = result.hints[k].kind
        /\ args.impl # "MerkleProof" => result.variable = ExpectedVariable(args.self)
        /\ args.impl = "StarkVerifyingKey" =>
               \A other \in WitnessValues["StarkVerifyingKey"] :
                   (/\ other.commit = args.self.commit
                    /\ other.pc_start = args.self.pc_start
                    /\ other.initial_global_cumulative_sum =
                           args.self.initial_global_cumulative_sum)
                       => write_StarkVerifyingKey(other) = result.witness

\* Deferred witness values with different end_pc and end_shard and
\* is_complete set have been written and read back.
C35_Witness ==
    /\ main_pc = "read"
    /\ args.impl = "ZKMDeferredWitnessValues"
    /\ args.self.end_pc # args.self.end_shard
    /\ args.self.is_complete
    /\ Len(result.witness) = 12

\* The number whose binary digits, least significant first, are the values
\* the variable has at index 0 .. len - 1.
RECURSIVE Recomposed(_, _)
Recomposed(variable, len) ==
    IF len = 0 THEN 0
    ELSE LET bit == CHOOSE c \in variable : c.field = Fld("", "index", len - 1)
         IN  bit.val * 2^(len - 1) + Recomposed(variable, len - 1)

\* C36: for a MerkleProof with index n and a path of length L, write emits
\* and read allocates exactly L index bits followed by the L elements of the
\* path; bit i is (n >> i) mod 2, the least significant first; the bits
\* recompose to n mod 2^L, which is n exactly when n < 2^L.
C36_IndexBits ==
    (main_pc = "read" /\ args.impl = "MerkleProof") =>
        LET n == args.self.index
            path == args.self.path
            L == Len(path)
        IN  /\ Len(result.witness) = 2 * L
            /\ Len(result.hints) = 2 * L
            /\ \A i \in 0..(L - 1) :
                  /\ result.witness[i + 1] = [kind |-> BitKind(args.config),
                                              val |-> (n \div 2^i) % 2]
                  /\ result.hints[i + 1] = [field |-> Fld("", "index", i),
                                            kind |-> BitKind(args.config)]
                  /\ result.witness[L + i + 1] = [kind |-> "felt", val |-> path[i + 1]]
                  /\ result.hints[L + i + 1] = [field |-> Fld("", "path", i), kind |-> "felt"]
            /\ result.variable =
                   {[field |-> Fld("", "index", i), val |-> (n \div 2^i) % 2] : i \in 0..(L - 1)}
                   \cup {[field |-> Fld("", "path", i), val |-> path[i + 1]] : i \in 0..(L - 1)}
            /\ Recomposed(result.variable, L) = n % 2^L
            /\ (Recomposed(result.variable, L) = n) <=> (n < 2^L)

\* An odd index that does not fit the bits of its path has been written and
\* read back.
C36_Witness ==
    /\ main_pc = "read"
    /\ args.impl = "MerkleProof"
    /\ Len(args.self.path) >= 2
    /\ args.self.index >= 2^Len(args.self.path)
    /\ args.self.index % 2 = 1
    /\ Recomposed(result.variable, Len(args.self.path)) = 1

\* The left fold of the hash over the calls, from the zero digest.
RECURSIVE FoldOfCalls(_)
FoldOfCalls(calls) ==
    IF calls = <<>> THEN ZeroDigest
    ELSE LET last == calls[Len(calls)]
         IN  Append(FoldOfCalls(SubSeq(calls, 1, Len(calls) - 1)),
                    [vk_digest |-> [i \in 1..8 |-> last.vk_digest[i] % KoalaBearP],
                     pv_digest |-> last.pv_digest])

\* C37: on the zkvm target every call of syscall_verify_zkm_proof replaces
\* the global digest by the hash of the previous digest, the verifying-key
\* digest and the public-values digest of the call, so that after the calls
\* c1 .. cn the digest is the left fold of the hash over the calls in call
\* order, from the initial digest; the call issues its one syscall and
\* changes nothing else.  On any other target the first call panics and no
\* call returns.
C37_DigestIsFoldOfCalls ==
    /\ args.target = "zkvm" =>
           /\ result.DEFERRED_PROOFS_DIGEST = FoldOfCalls(args.calls)
           /\ Len(result.syscalls) = Len(args.calls)
           /\ main_pc = "running"
           /\ NoPipeline
    /\ args.target = "other" =>
           /\ result.DEFERRED_PROOFS_DIGEST = ZeroDigest
           /\ result.syscalls = <<>>
           /\ Len(args.calls) <= 1
           /\ (args.calls # <<>>) <=> (main_pc = "panicked")
           /\ (main_pc = "panicked") => ~ENABLED NextVerify

\* Two different calls have been made on the zkvm target, the later one with
\* digest words above the field order.
C37_Witness ==
    /\ args.target = "zkvm"
    /\ Len(args.calls) >= 2
    /\ args.calls[1] # args.calls[2]
    /\ args.calls[2].vk_digest[1] > KoalaBearP
    /\ Len(result.DEFERRED_PROOFS_DIGEST) >= 2

\* A real row on which the constraints have been evaluated and hold.
AcceptedRealRow ==
    /\ main_pc \in {"evaluated", "evaluated_forged"}
    /\ args.is_real
    /\ result.accepted

\* The offsets of populate are the offsets of the constraints, and the rows
\* populate fills satisfy the constraints with y6_value = y_6 - offset.
SameOffsets ==
    /\ \A is_receive \in BOOLEAN : populate_offset(is_receive) = eval_offset(is_receive)
    /\ populate_offset(TRUE) = 1
    /\ populate_offset(FALSE) = 2^30 - 2^23 + 1
    /\ (main_pc = "evaluated") => result.accepted
    /\ (main_pc = "evaluated" /\ args.is_real) =>
           eval_y6_value(result.cols.y6_bit_decomp, 29)
               = args.y6 - populate_offset(args.is_receive)

=========================================================================
